---- MODULE Spec2Model ----
(***************************************************************************)
(* MT5Enhance: deal classification (trades.py parse_sequences_and_deals),  *)
(* non-overlap selection and per-symbol balance (trades.py main), pooled   *)
(* balance / drawdown and conservative daily-sum drawdown (analyze.py).    *)
(*                                                                         *)
(* Volumes are counted in units of half the tolerance 0.000001 of          *)
(* trades.py, so that a volume below, equal to and above the tolerance     *)
(* exist.  Times are whole ticks; money is whole units.                    *)
(***************************************************************************)
EXTENDS Integers, Sequences, FiniteSets, TLC

VARIABLES
    pc,                  \* position of the running entry point
    \* ---- trades.py parse_sequences_and_deals (lines 65-76)
    sequences, long_vol, short_vol, active_long_deals, active_short_deals,
    long_seq_num, short_seq_num, long_trade_count, short_trade_count,
    global_seq_counter, all_deals_output,
    \* ---- trades.py main (lines 211, 244-302)
    all_sequences, sequences_by_symbol, sym_idx, seqs, s_idx,
    last_end_time_long, last_end_time_short, selected_seq_deals, total_trades,
    accepted_deals, selected_trades,
    \* ---- the all_trades_<report>.csv files (trades.py lines 229-241) as
    \* analyze.py finds them; trades.py never reads them back, and its stages
    \* leave them out
    all_trades,
    \* ---- analyze.py main (lines 35-39, 59-126, 569-638)
    df_deals, calc_start, calc_end, portfolio, report_daily_max_dds,
    portfolio_max_dd_abs,
    \* ---- analyze.py main: the summary box of the report (lines 679-692)
    \* and the status shown for every report of the list (lines 763-870)
    summary, report_status,
    \* ---- analyze_portfolio.py main (lines 58-82)
    ap_portfolio,
    \* ---- trades.py main: report_list.csv, --all and the loop over the
    \* reports (lines 186-241)
    report_list, all_flag, file_idx,
    \* ---- what the run before this one wrote
    first_run,
    \* ---- e2e.py main (lines 43-120): its position, its arguments and what
    \* it finds at input_path, and the child processes it started and saw end
    e2e_pc, e2e_args, e2e_trace

parseVars == <<sequences, long_vol, short_vol, active_long_deals,
               active_short_deals, long_seq_num, short_seq_num,
               long_trade_count, short_trade_count, global_seq_counter,
               all_deals_output>>

longVars == <<long_vol, active_long_deals, long_seq_num, long_trade_count>>

shortVars == <<short_vol, active_short_deals, short_seq_num, short_trade_count>>

mainVars == <<all_sequences, sequences_by_symbol, sym_idx, seqs, s_idx,
              last_end_time_long, last_end_time_short, selected_seq_deals,
              total_trades, accepted_deals, selected_trades>>

analyzeVars == <<df_deals, calc_start, calc_end, portfolio,
                 report_daily_max_dds, portfolio_max_dd_abs, summary,
                 report_status, ap_portfolio>>

listVars == <<report_list, all_flag, file_idx, first_run>>

e2eVars == <<e2e_pc, e2e_args, e2e_trace>>

vars == <<pc, parseVars, mainVars, all_trades, listVars, analyzeVars,
          e2eVars>>

----------------------------------------------------------------------------
(* Bounds of the model *)

\* rows of one report that survive the filter of line 60
MaxRows == 4

\* candidate sequences in the pool of main (all_sequences)
MaxSeqs == 3

\* reports whose deals the Trades folder holds when analyze.py starts
MaxReports == 2

\* rows of report_list.csv
MaxList == 2

----------------------------------------------------------------------------
(* Values *)

\* Python's None (trades.py: long_seq_num = None, TradeNumberInSequence = None)
None == -1

\* the tolerance 0.000001 of trades.py, in volume units (half tolerances)
EPS == 2

\* a Volume cell that float() rejects (lines 81-84)
NonNumeric == -2

\* lines 81-84: vol
FloatOf(volume) == IF volume = NonNumeric THEN 0 ELSE volume

\* NonNumeric: a Volume cell that is no number, which counts as the volume 0
\* (line 84); 1: below the tolerance;
\* 3, 5: ordinary lot sizes (3 + 3 - 5 leaves a residue below the tolerance,
\* 5 - 3 leaves exactly the tolerance)
Vols == {NonNumeric, 1, 3, 5}

\* the rows line 60 keeps: a valid Direction, or Type 'balance'
RowKinds ==
    [Type : {"buy", "sell"}, Direction : {"in", "out"}, Volume : Vols]
    \cup [Type : {"buy", "sell"}, Direction : {"in/out"}, Volume : {3}]
    \cup [Type : {"balance"}, Direction : {"nan"}, Volume : {0}]

\* a report holds the deals of one instrument
ReportSymbol == "EURUSD"

ReportFile == "r1.html"

----------------------------------------------------------------------------
(* trades.py parse_sequences_and_deals: the loop over the rows *)

\* lines 86-89
RowDict(row) ==
    [Deal |-> row.Deal, Time |-> row.Time, Type |-> row.Type,
     Direction |-> row.Direction, Volume |-> row.Volume,
     SourceFile |-> ReportFile, SequenceNumber |-> 0,
     TradeNumberInSequence |-> 0]

\* line 92
IsLongFill(row) ==
    \/ row.Type = "buy" /\ row.Direction = "in"
    \/ row.Type = "sell" /\ row.Direction = "out" /\ long_vol > EPS

\* line 125 (reached only when line 92 is false)
IsShortFill(row) ==
    \/ row.Type = "sell" /\ row.Direction = "in"
    \/ row.Type = "buy" /\ row.Direction = "out" /\ short_vol > EPS

\* lines 113-120 / 146-153
MakeSequence(deals, row, side) ==
    [start |-> deals[1].Time, end |-> row.Time, deals |-> deals,
     symbol |-> ReportSymbol, file |-> ReportFile, side |-> side]

\* mutant: an entry from flat does not restart the counter
TradeCount_NoRestart(opening, fresh, count) ==
    IF opening THEN count + 1 ELSE count

\* lines 94-100 (long), 127-133 (short): the side's trade counter after the
\* fill; an entry from flat restarts it at 1, an exit leaves it alone
TradeCount(opening, fresh, count) ==
    IF opening THEN (IF fresh THEN 1 ELSE count + 1) ELSE count

\* mutant: an entry from flat keeps the buffer of the sequence before it
Buffer_NoReset(fresh, active, row_dict) ==
    Append(active, row_dict)

\* lines 98 and 109 (long), 131 and 142 (short): an entry from flat starts a
\* new buffer; the fill is appended to the side's buffer
Buffer(fresh, active, row_dict) ==
    Append(IF fresh THEN <<>> ELSE active, row_dict)

\* mutant: the counter stays at 1 once the first id has been allocated
AllocateSeq_Reuse(counter) == IF counter = 0 THEN 1 ELSE counter

\* lines 95 (long) and 128 (short): global_seq_counter += 1
AllocateSeq(counter) == counter + 1

\* lines 93-122
LongSide(row) ==
    LET opening == row.Direction = "in"
        fresh   == opening /\ long_vol < EPS
        count   == TradeCount(opening, fresh, long_trade_count)
        seqnum  == IF fresh THEN AllocateSeq(global_seq_counter)
                            ELSE long_seq_num
        vol     == IF opening THEN long_vol + FloatOf(row.Volume)
                              ELSE long_vol - FloatOf(row.Volume)
        row_dict == [RowDict(row) EXCEPT
                       !.TradeNumberInSequence = IF opening THEN count ELSE None,
                       !.SequenceNumber = seqnum]
        deals   == Buffer(fresh, active_long_deals, row_dict)
    IN  /\ global_seq_counter' =
              IF fresh THEN AllocateSeq(global_seq_counter)
                       ELSE global_seq_counter
        /\ long_trade_count' = count
        /\ active_long_deals' = deals
        /\ IF vol < EPS
           THEN /\ sequences' = Append(sequences, MakeSequence(deals, row, "long"))
                /\ long_vol' = 0
                /\ long_seq_num' = None
           ELSE /\ sequences' = sequences
                /\ long_vol' = vol
                /\ long_seq_num' = seqnum
        /\ all_deals_output' = Append(all_deals_output, row_dict)
        /\ UNCHANGED shortVars

\* lines 126-155
ShortSide(row) ==
    LET opening == row.Direction = "in"
        fresh   == opening /\ short_vol < EPS
        count   == TradeCount(opening, fresh, short_trade_count)
        seqnum  == IF fresh THEN AllocateSeq(global_seq_counter)
                            ELSE short_seq_num
        vol     == IF opening THEN short_vol + FloatOf(row.Volume)
                              ELSE short_vol - FloatOf(row.Volume)
        row_dict == [RowDict(row) EXCEPT
                       !.TradeNumberInSequence = IF opening THEN count ELSE None,
                       !.SequenceNumber = seqnum]
        deals   == Buffer(fresh, active_short_deals, row_dict)
    IN  /\ global_seq_counter' =
              IF fresh THEN AllocateSeq(global_seq_counter)
                       ELSE global_seq_counter
        /\ short_trade_count' = count
        /\ active_short_deals' = deals
        /\ IF vol < EPS
           THEN /\ sequences' = Append(sequences, MakeSequence(deals, row, "short"))
                /\ short_vol' = 0
                /\ short_seq_num' = None
           ELSE /\ sequences' = sequences
                /\ short_vol' = vol
                /\ short_seq_num' = seqnum
        /\ all_deals_output' = Append(all_deals_output, row_dict)
        /\ UNCHANGED longVars

\* mutant: a combined fill goes to the short side when both sides are open
InOut_ShortFirst(row) ==
    IF short_vol > EPS
    THEN LET row_dict == [RowDict(row) EXCEPT
                            !.SequenceNumber = short_seq_num,
                            !.TradeNumberInSequence = None]
         IN  /\ active_short_deals' = Append(active_short_deals, row_dict)
             /\ all_deals_output' = Append(all_deals_output, row_dict)
             /\ UNCHANGED <<sequences, global_seq_counter, short_vol,
                            short_seq_num, short_trade_count, longVars>>
    ELSE IF long_vol > EPS
    THEN LET row_dict == [RowDict(row) EXCEPT
                            !.SequenceNumber = long_seq_num,
                            !.TradeNumberInSequence = None]
         IN  /\ active_long_deals' = Append(active_long_deals, row_dict)
             /\ all_deals_output' = Append(all_deals_output, row_dict)
             /\ UNCHANGED <<sequences, global_seq_counter, long_vol,
                            long_seq_num, long_trade_count, shortVars>>
    ELSE /\ all_deals_output' = Append(all_deals_output, RowDict(row))
         /\ UNCHANGED <<sequences, global_seq_counter, longVars, shortVars>>

\* lines 158-167
InOut(row) ==
    IF long_vol > EPS
    THEN LET row_dict == [RowDict(row) EXCEPT
                            !.SequenceNumber = long_seq_num,
                            !.TradeNumberInSequence = None]
         IN  /\ active_long_deals' = Append(active_long_deals, row_dict)
             /\ all_deals_output' = Append(all_deals_output, row_dict)
             /\ UNCHANGED <<sequences, global_seq_counter, long_vol,
                            long_seq_num, long_trade_count, shortVars>>
    ELSE IF short_vol > EPS
    THEN LET row_dict == [RowDict(row) EXCEPT
                            !.SequenceNumber = short_seq_num,
                            !.TradeNumberInSequence = None]
         IN  /\ active_short_deals' = Append(active_short_deals, row_dict)
             /\ all_deals_output' = Append(all_deals_output, row_dict)
             /\ UNCHANGED <<sequences, global_seq_counter, short_vol,
                            short_seq_num, short_trade_count, longVars>>
    ELSE /\ all_deals_output' = Append(all_deals_output, RowDict(row))
         /\ UNCHANGED <<sequences, global_seq_counter, longVars, shortVars>>

\* mutant: a row no branch takes flattens both sides
NoSide_Flatten(row) ==
    /\ all_deals_output' = Append(all_deals_output, RowDict(row))
    /\ long_vol' = 0
    /\ short_vol' = 0
    /\ long_seq_num' = None
    /\ short_seq_num' = None
    /\ UNCHANGED <<sequences, global_seq_counter, active_long_deals,
                   active_short_deals, long_trade_count, short_trade_count>>

\* a row no branch takes (a balance row, an exit while its side is flat):
\* only line 169 acts
NoSide(row) ==
    /\ all_deals_output' = Append(all_deals_output, RowDict(row))
    /\ UNCHANGED <<sequences, global_seq_counter, longVars, shortVars>>

\* lines 78-169: one iteration of the loop.  The rows are sorted by Time
\* (line 53); the row's position is its Deal number and its Time.
ProcessRow ==
    /\ pc = "parse"
    /\ Len(all_deals_output) < MaxRows
    /\ \E kind \in RowKinds :
          LET n   == Len(all_deals_output) + 1
              row == [Deal |-> n, Time |-> n, Type |-> kind.Type,
                      Direction |-> kind.Direction, Volume |-> kind.Volume]
          IN  IF IsLongFill(row) THEN LongSide(row)
              ELSE IF IsShortFill(row) THEN ShortSide(row)
              ELSE IF row.Direction = "in/out" THEN InOut(row)
              ELSE NoSide(row)
    /\ pc' = pc
    /\ UNCHANGED <<mainVars, all_trades, listVars, e2eVars, analyzeVars>>

\* line 171: the report's last deal has been processed
ParseReturn ==
    /\ pc = "parse"
    /\ pc' = "parsed"
    /\ UNCHANGED <<parseVars, mainVars, all_trades, listVars, e2eVars, analyzeVars>>

\* lines 65-76
ParseInit ==
    /\ sequences = <<>>
    /\ long_vol = 0
    /\ short_vol = 0
    /\ active_long_deals = <<>>
    /\ active_short_deals = <<>>
    /\ long_seq_num = None
    /\ short_seq_num = None
    /\ long_trade_count = 0
    /\ short_trade_count = 0
    /\ global_seq_counter = 0
    /\ all_deals_output = <<>>

----------------------------------------------------------------------------
(* trades.py main: grouping, non-overlap selection, per-symbol balance *)

\* --base (line 180)
Base == 100000

\* pd.Timestamp.min (lines 256-257); every deal time is later
TimestampMin == 0

Times == {1, 2, 3}

\* the instruments, in the order the model's reports use them
SymbolList == <<"EURUSD", "GBPUSD", "USDJPY">>

Symbols == {SymbolList[k] : k \in 1..Len(SymbolList)}

\* a name no output of this run carries yet
Unbound == "unbound"

\* a sequence as parse_sequences_and_deals returns it (lines 113-120), here
\* the n-th of the pool: an entry at start and the exit that flattens it at
\* end.  The entry pays a commission; the exit's profit depends on the side
\* and on how long the position was held.
Candidate(n, start, end, side, symbol) ==
    LET file  == n
        entry == [Deal |-> 2 * n - 1, Time |-> start,
                  Type |-> IF side = "long" THEN "buy" ELSE "sell",
                  Direction |-> "in", Volume |-> 3, SourceFile |-> file,
                  SequenceNumber |-> 1, TradeNumberInSequence |-> 1,
                  Profit |-> 0, Commission |-> -1, Swap |-> 0, Balance |-> 0]
        exit  == [Deal |-> 2 * n, Time |-> end,
                  Type |-> IF side = "long" THEN "sell" ELSE "buy",
                  Direction |-> "out", Volume |-> 3, SourceFile |-> file,
                  SequenceNumber |-> 1, TradeNumberInSequence |-> None,
                  Profit |-> IF side = "long" THEN 4 * (end - start) - 3
                                              ELSE 2 - 3 * (end - start),
                  Commission |-> -1, Swap |-> 0, Balance |-> 0]
    IN  [start |-> start, end |-> end, deals |-> <<entry, exit>>,
         symbol |-> symbol, file |-> file, side |-> side]

\* what a sequence of the pool may be: start <= end (the rows are sorted by
\* Time, line 53)
Shapes ==
    {x \in [start : Times, end : Times, side : {"long", "short"}] :
        x.start <= x.end}

\* the pool main holds after line 241 when the reports returned sequences of
\* the shapes c[1], ..., c[Len(c)], the first split of them of one
\* instrument and the rest of another
PoolOf(c, split) ==
    [n \in 1..Len(c) |->
        Candidate(n, c[n].start, c[n].end, c[n].side,
                  IF n <= split THEN "EURUSD" ELSE "GBPUSD")]

RECURSIVE GroupBySymbol(_, _)
\* lines 244-249: the dict sequences_by_symbol, in insertion order, after the
\* first n sequences of all
GroupBySymbol(all, n) ==
    IF n = 0 THEN <<>>
    ELSE LET g == GroupBySymbol(all, n - 1)
             s == all[n]
             hit == {k \in 1..Len(g) : g[k].sym = s.symbol}
         IN  IF hit = {}
             THEN Append(g, [sym |-> s.symbol, seqs |-> <<s>>])
             ELSE [k \in 1..Len(g) |->
                     IF k \in hit
                     THEN [g[k] EXCEPT !.seqs = Append(@, s)]
                     ELSE g[k]]

\* mutant: x goes before the elements whose key equals its key
InsertByKey_Unstable(sorted, keys, x, key) ==
    LET k == Cardinality({i \in 1..Len(sorted) : keys[i] < key})
    IN  SubSeq(sorted, 1, k) \o <<x>> \o SubSeq(sorted, k + 1, Len(sorted))

\* list.sort is stable: x goes after every element whose key is <= its key
InsertByKey(sorted, keys, x, key) ==
    LET k == Cardinality({i \in 1..Len(sorted) : keys[i] <= key})
    IN  SubSeq(sorted, 1, k) \o <<x>> \o SubSeq(sorted, k + 1, Len(sorted))

RECURSIVE SortByStart_ByEnd(_)
\* mutant: the candidates are sorted by their end
SortByStart_ByEnd(list) ==
    IF list = <<>> THEN <<>>
    ELSE LET sorted == SortByStart_ByEnd(SubSeq(list, 1, Len(list) - 1))
             x == list[Len(list)]
         IN  InsertByKey(sorted, [i \in 1..Len(sorted) |-> sorted[i].end],
                         x, x.end)

RECURSIVE SortByStart(_)
\* line 255: seqs.sort(key=lambda x: x['start'])
SortByStart(list) ==
    IF list = <<>> THEN <<>>
    ELSE LET sorted == SortByStart(SubSeq(list, 1, Len(list) - 1))
             x == list[Len(list)]
         IN  InsertByKey(sorted, [i \in 1..Len(sorted) |-> sorted[i].start],
                         x, x.start)

RECURSIVE SortByTime(_)
\* line 276: selected_seq_deals.sort(key=lambda x: pd.to_datetime(x['Time']))
SortByTime(list) ==
    IF list = <<>> THEN <<>>
    ELSE LET sorted == SortByTime(SubSeq(list, 1, Len(list) - 1))
             x == list[Len(list)]
         IN  InsertByKey(sorted, [i \in 1..Len(sorted) |-> sorted[i].Time],
                         x, x.Time)

\* mutant: every sequence is accepted
Accepts_Always(start, last_end_time) == TRUE

\* mutant: a sequence starting at the last accepted end is accepted
Accepts_NonStrict(start, last_end_time) == start >= last_end_time

\* lines 264 and 269
Accepts(start, last_end_time) == start > last_end_time

\* line 288
NetPnl(d) == d.Profit + d.Commission + d.Swap

\* lines 282-290: current_balance after the deal d
BalanceAfter(current_balance, d) ==
    IF d.Direction = "in" THEN current_balance
    ELSE current_balance + NetPnl(d)

RECURSIVE CurrentBalance(_, _)
\* lines 279-290: current_balance after the first n deals
CurrentBalance(deals, n) ==
    IF n = 0 THEN Base
    ELSE BalanceAfter(CurrentBalance(deals, n - 1), deals[n])

\* lines 278-292: every deal with its Balance
AcceptedDeals(deals) ==
    [n \in 1..Len(deals) |->
        [deals[n] EXCEPT !.Balance = CurrentBalance(deals, n)]]

\* lines 296-302: the rows of selected_trades_<sym>.csv, SequenceNumber dropped
SelectedRows(deals) ==
    [n \in 1..Len(deals) |->
        [f \in DOMAIN deals[n] \ {"SequenceNumber"} |-> deals[n][f]]]

\* lines 244-249
Group ==
    /\ pc = "group"
    /\ sequences_by_symbol' = GroupBySymbol(all_sequences, Len(all_sequences))
    /\ pc' = "symbols"
    /\ UNCHANGED <<parseVars, all_sequences, sym_idx, seqs, s_idx,
                   last_end_time_long, last_end_time_short,
                   selected_seq_deals, total_trades, accepted_deals,
                   selected_trades, all_trades, listVars, e2eVars, analyzeVars>>

\* mutant: the deals selected for the symbol before are kept
NextSymbol_Carry ==
    /\ pc = "symbols"
    /\ sym_idx < Len(sequences_by_symbol)
    /\ sym_idx' = sym_idx + 1
    /\ seqs' = SortByStart(sequences_by_symbol[sym_idx + 1].seqs)
    /\ s_idx' = 1
    /\ last_end_time_long' = TimestampMin
    /\ last_end_time_short' = TimestampMin
    /\ pc' = "seqs"
    /\ UNCHANGED <<parseVars, all_sequences, sequences_by_symbol,
                   selected_seq_deals, total_trades, accepted_deals,
                   selected_trades, all_trades, listVars, e2eVars, analyzeVars>>

\* lines 254-259: the next symbol of the dict
NextSymbol ==
    /\ pc = "symbols"
    /\ sym_idx < Len(sequences_by_symbol)
    /\ sym_idx' = sym_idx + 1
    /\ seqs' = SortByStart(sequences_by_symbol[sym_idx + 1].seqs)
    /\ s_idx' = 1
    /\ last_end_time_long' = TimestampMin
    /\ last_end_time_short' = TimestampMin
    /\ selected_seq_deals' = <<>>
    /\ pc' = "seqs"
    /\ UNCHANGED <<parseVars, all_sequences, sequences_by_symbol,
                   total_trades, accepted_deals, selected_trades,
                   all_trades, listVars, e2eVars, analyzeVars>>

\* mutant: one last end time for both sides (as generate_trades.py keeps)
VisitSequence_OneLastEnd ==
    /\ pc = "seqs"
    /\ s_idx <= Len(seqs)
    /\ LET s == seqs[s_idx]
           last == IF last_end_time_long > last_end_time_short
                   THEN last_end_time_long ELSE last_end_time_short
       IN  IF Accepts(s.start, last)
           THEN /\ selected_seq_deals' = selected_seq_deals \o s.deals
                /\ IF s.side = "long"
                   THEN /\ last_end_time_long' = s.end
                        /\ UNCHANGED last_end_time_short
                   ELSE /\ last_end_time_short' = s.end
                        /\ UNCHANGED last_end_time_long
                /\ total_trades' = total_trades + 1
           ELSE UNCHANGED <<selected_seq_deals, last_end_time_long,
                            last_end_time_short, total_trades>>
    /\ s_idx' = s_idx + 1
    /\ UNCHANGED <<pc, parseVars, all_sequences, sequences_by_symbol, sym_idx,
                   seqs, accepted_deals, selected_trades, all_trades, listVars, e2eVars,
                   analyzeVars>>

\* lines 261-272: one iteration of "for s in seqs"
VisitSequence ==
    /\ pc = "seqs"
    /\ s_idx <= Len(seqs)
    /\ LET s == seqs[s_idx]
       IN  IF s.side = "long"
           THEN /\ IF Accepts(s.start, last_end_time_long)
                   THEN /\ selected_seq_deals' = selected_seq_deals \o s.deals
                        /\ last_end_time_long' = s.end
                        /\ total_trades' = total_trades + 1
                   ELSE UNCHANGED <<selected_seq_deals, last_end_time_long,
                                    total_trades>>
                /\ UNCHANGED last_end_time_short
           ELSE /\ IF Accepts(s.start, last_end_time_short)
                   THEN /\ selected_seq_deals' = selected_seq_deals \o s.deals
                        /\ last_end_time_short' = s.end
                        /\ total_trades' = total_trades + 1
                   ELSE UNCHANGED <<selected_seq_deals, last_end_time_short,
                                    total_trades>>
                /\ UNCHANGED last_end_time_long
    /\ s_idx' = s_idx + 1
    /\ UNCHANGED <<pc, parseVars, all_sequences, sequences_by_symbol, sym_idx,
                   seqs, accepted_deals, selected_trades, all_trades, listVars, e2eVars,
                   analyzeVars>>

\* lines 274-302: the balance of the symbol's selected deals and its csv
WriteSelected ==
    /\ pc = "seqs"
    /\ s_idx > Len(seqs)
    /\ accepted_deals' =
          IF selected_seq_deals # <<>>
          THEN AcceptedDeals(SortByTime(selected_seq_deals))
          ELSE accepted_deals
    /\ selected_trades' =
          IF accepted_deals' # <<>>
          THEN [selected_trades EXCEPT
                  ![sequences_by_symbol[sym_idx].sym] =
                      SelectedRows(accepted_deals')]
          ELSE selected_trades
    /\ pc' = "symbols"
    /\ UNCHANGED <<parseVars, all_sequences, sequences_by_symbol, sym_idx,
                   seqs, s_idx, last_end_time_long, last_end_time_short,
                   selected_seq_deals, total_trades, all_trades, listVars, e2eVars, analyzeVars>>

\* lines 304-305
MainDone ==
    /\ pc = "symbols"
    /\ sym_idx = Len(sequences_by_symbol)
    /\ pc' = "main_done"
    /\ UNCHANGED <<parseVars, mainVars, all_trades, listVars, e2eVars, analyzeVars>>

\* the locals of main before line 244 (the Trades folder is refreshed at
\* lines 214-218: no selected_trades file exists)
MainIdle ==
    /\ sequences_by_symbol = <<>>
    /\ sym_idx = 0
    /\ seqs = <<>>
    /\ s_idx = 1
    /\ last_end_time_long = TimestampMin
    /\ last_end_time_short = TimestampMin
    /\ selected_seq_deals = <<>>
    /\ total_trades = 0
    /\ accepted_deals = Unbound
    /\ selected_trades = [sym \in Symbols |-> <<>>]

\* lines 229-236: the rows of all_trades_<report>.csv, SourceFile dropped
AllTradesRows(deals) ==
    [n \in 1..Len(deals) |->
        [f \in DOMAIN deals[n] \ {"SourceFile"} |-> deals[n][f]]]

----------------------------------------------------------------------------
(* analyze.py main: the pooled timeline and the conservative drawdown;      *)
(* analyze_portfolio.py main: its timeline                                  *)

\* Time is counted in ticks of 30 seconds: a minute (the '1min' of lines 100
\* and 106) is TicksPerMin ticks and, to keep the grid short, a calendar day
\* (normalize, lines 76-77; dt.date, line 628) is MinPerDay minutes
TicksPerMin == 2

MinPerDay == 2

TicksPerDay == TicksPerMin * MinPerDay

\* the times of the deals: the start of a day, 30 seconds later, the next
\* minute, and 30 seconds into the next day
DealTicks == {0, 1, TicksPerMin, TicksPerDay + 1}

\* dt.floor('1min'), line 106
Floor1min(t) == (t \div TicksPerMin) * TicksPerMin

\* Timestamp.normalize, lines 76-77
Normalize(t) == (t \div TicksPerDay) * TicksPerDay

\* dt.date, line 628
DateOf(t) == t \div TicksPerDay

MinOf(S) == CHOOSE x \in S : \A y \in S : x <= y

MaxOf(S) == CHOOSE x \in S : \A y \in S : x >= y

RECURSIVE CumSum(_, _)
\* Series.cumsum (lines 115, 624) at position n; Series.sum at n = Len
CumSum(values, n) ==
    IF n = 0 THEN 0 ELSE CumSum(values, n - 1) + values[n]

\* mutant: the peak is the maximum of the last two values only
ExpandingMax_Window(values, n) ==
    IF n = 1 \/ values[n] > values[n - 1] THEN values[n] ELSE values[n - 1]

RECURSIVE ExpandingMax(_, _)
\* Series.expanding().max() (lines 118, 626) at position n
ExpandingMax(values, n) ==
    IF n = 1 THEN values[1]
    ELSE LET m == ExpandingMax(values, n - 1)
         IN  IF values[n] > m THEN values[n] ELSE m

\* what the one sequence of a report may be
ReportShapes ==
    {x \in [t_in : DealTicks, t_out : DealTicks, commission : {0, -1},
            profit : {-3, 2}] : x.t_in <= x.t_out}

\* the deals of the n-th report as parse_sequences_and_deals returns them: one
\* long sequence, an entry and the exit that flattens it
ReportDeals(n, x) ==
    << [Deal |-> 2 * n - 1, Time |-> x.t_in, Type |-> "buy",
        Direction |-> "in", Volume |-> 3, SourceFile |-> n,
        SequenceNumber |-> 1, TradeNumberInSequence |-> 1,
        Profit |-> 0, Commission |-> x.commission, Swap |-> 0, Balance |-> 0],
       [Deal |-> 2 * n, Time |-> x.t_out, Type |-> "sell",
        Direction |-> "out", Volume |-> 3, SourceFile |-> n,
        SequenceNumber |-> 1, TradeNumberInSequence |-> None,
        Profit |-> x.profit, Commission |-> 0, Swap |-> 0, Balance |-> 0] >>

RECURSIVE ConcatFiles(_, _)
\* lines 60-67: pd.concat of the selected_trades files, the first k of them
ConcatFiles(files, k) ==
    IF k = 0 THEN <<>>
    ELSE ConcatFiles(files, k - 1) \o files[SymbolList[k]]

\* line 69
WithDealPnL(row) ==
    [f \in DOMAIN row \cup {"DealPnL"} |->
        IF f = "DealPnL" THEN NetPnl(row) ELSE row[f]]

\* lines 67-69 (analyze_portfolio.py line 40; its files carry the DealPnL
\* column that generate_trades.py line 46 computes the same way)
LoadedDeals(files) ==
    LET sorted == SortByTime(ConcatFiles(files, Len(SymbolList)))
    IN  [n \in 1..Len(sorted) |-> WithDealPnL(sorted[n])]

\* lines 76-77 and 83-84, without --start and --end
DataStart(deals) == Normalize(MinOf({deals[n].Time : n \in 1..Len(deals)}))

DataEnd(deals) ==
    Normalize(MaxOf({deals[n].Time : n \in 1..Len(deals)})) + TicksPerDay

\* lines 90 and 620
InRange(deals, start, end) ==
    SelectSeq(deals, LAMBDA d : d.Time >= start /\ d.Time < end)

\* mutant: the last deal of the minute t stands for the minute
BalanceChanges_LastOnly(deals, t) ==
    LET at == {n \in 1..Len(deals) : Floor1min(deals[n].Time) = t}
    IN  IF at = {} THEN 0 ELSE deals[MaxOf(at)].DealPnL

\* lines 105-109: the sum of DealPnL of the deals whose minute is t
BalanceChanges(deals, t) ==
    LET v == [n \in 1..Len(deals) |->
                IF Floor1min(deals[n].Time) = t THEN deals[n].DealPnL ELSE 0]
    IN  CumSum(v, Len(v))

\* lines 100-118: the frame over the 1-minute grid from start to end, both
\* included, fed by the deals
Timeline(deals, start, end) ==
    LET n   == (end - start) \div TicksPerMin + 1
        at  == [k \in 1..n |-> start + (k - 1) * TicksPerMin]
        pnl == [k \in 1..n |-> BalanceChanges(deals, at[k])]
        bal == [k \in 1..n |-> CumSum(pnl, k) + Base]
    IN  [k \in 1..n |->
            [Time |-> at[k], BalancePnL |-> pnl[k], Balance |-> bal[k],
             PeakBalance |-> ExpandingMax(bal, k)]]

\* analyze_portfolio.py line 69
BalanceDeals(deals) ==
    SelectSeq(deals, LAMBDA d : d.Direction \in {"out", "in/out"})

\* lines 616-629: the daily minimum of a report's drawdown, by date
DailyMaxDD(rows, start, end) ==
    LET f    == SortByTime(InRange(rows, start, end))
        pnl  == [n \in 1..Len(f) |-> NetPnl(f[n])]
        bal  == [n \in 1..Len(f) |-> CumSum(pnl, n) + Base]
        dd   == [n \in 1..Len(f) |-> bal[n] - ExpandingMax(bal, n)]
        days == {DateOf(f[n].Time) : n \in 1..Len(f)}
    IN  [d \in days |->
            MinOf({dd[n] : n \in {m \in 1..Len(f) : DateOf(f[m].Time) = d}})]

\* lines 633-634: the frame of the reports' daily series, holes filled with
\* 0, summed by row
DailyPortfolioDDSum(dds) ==
    LET days == UNION {DOMAIN dds[r] : r \in DOMAIN dds}
        top == MaxOf(DOMAIN dds)
        col(d) == [r \in 1..top |->
                     IF r \in DOMAIN dds /\ d \in DOMAIN dds[r]
                     THEN dds[r][d] ELSE 0]
    IN  [d \in days |-> CumSum(col(d), top)]

\* pd.Timestamp.now() (lines 80-81), a tick of the second day
Now == TicksPerDay + 1

\* lines 59-96
LoadDeals ==
    /\ pc = "analyze"
    /\ LET loaded == LoadedDeals(selected_trades)
       IN  IF loaded # <<>>
           THEN /\ calc_start' = DataStart(loaded)
                /\ calc_end' = DataEnd(loaded)
                /\ df_deals' = InRange(loaded, calc_start', calc_end')
           ELSE /\ calc_start' = Normalize(Now) - 365 * TicksPerDay
                /\ calc_end' = Normalize(Now) + TicksPerDay
                /\ df_deals' = <<>>
    /\ pc' = "timeline"
    /\ UNCHANGED <<parseVars, mainVars, all_trades, listVars, e2eVars, portfolio,
                   report_daily_max_dds, portfolio_max_dd_abs, summary,
                   report_status, ap_portfolio>>

\* lines 92-126
PortfolioTimeline ==
    /\ pc = "timeline"
    /\ IF df_deals = <<>>
       THEN /\ portfolio' = <<>>
            /\ UNCHANGED portfolio_max_dd_abs
       ELSE /\ portfolio' = Timeline(df_deals, calc_start, calc_end)
            /\ portfolio_max_dd_abs' =
                  MinOf({portfolio'[k].Balance - portfolio'[k].PeakBalance :
                            k \in 1..Len(portfolio')})
    /\ pc' = "daily"
    /\ UNCHANGED <<parseVars, mainVars, all_trades, listVars, e2eVars, df_deals,
                   calc_start, calc_end, report_daily_max_dds, summary,
                   report_status, ap_portfolio>>

\* lines 569-629, no parquet beside the reports: the series of every included
\* report whose all_trades file has rows in the range
DailyDrawdowns ==
    /\ pc = "daily"
    /\ LET included_files_set ==
              {df_deals[n].SourceFile : n \in 1..Len(df_deals)}
           kept == {r \in included_files_set :
                       /\ r \in DOMAIN all_trades
                       /\ InRange(all_trades[r], calc_start, calc_end) # <<>>}
       IN  report_daily_max_dds' =
              [r \in kept |-> DailyMaxDD(all_trades[r], calc_start, calc_end)]
    /\ pc' = "dd_sum"
    /\ UNCHANGED <<parseVars, mainVars, all_trades, listVars, e2eVars, df_deals,
                   calc_start, calc_end, portfolio, portfolio_max_dd_abs,
                   summary, report_status, ap_portfolio>>

\* lines 631-638
DrawdownSum ==
    /\ pc = "dd_sum"
    /\ portfolio_max_dd_abs' =
          IF DOMAIN report_daily_max_dds # {}
          THEN LET daily_portfolio_dd_sum ==
                      DailyPortfolioDDSum(report_daily_max_dds)
               IN  MinOf({daily_portfolio_dd_sum[d] :
                             d \in DOMAIN daily_portfolio_dd_sum})
          ELSE portfolio_max_dd_abs
    /\ pc' = "analyze_done"
    /\ UNCHANGED <<parseVars, mainVars, all_trades, listVars, e2eVars, df_deals,
                   calc_start, calc_end, portfolio, report_daily_max_dds,
                   summary, report_status, ap_portfolio>>

\* lines 684-689: the Final Balance line and, for a portfolio that is not
\* empty, the one Max Drawdown line of the summary box
WriteSummary ==
    /\ pc = "analyze_done"
    /\ summary' =
          [final_balance |-> IF portfolio # <<>>
                             THEN portfolio[Len(portfolio)].Balance
                             ELSE Base,
           max_drawdown |-> IF portfolio # <<>>
                            THEN <<portfolio_max_dd_abs>>
                            ELSE <<>>]
    /\ pc' = "summary"
    /\ UNCHANGED <<parseVars, mainVars, all_trades, listVars, e2eVars, df_deals,
                   calc_start, calc_end, portfolio, report_daily_max_dds,
                   portfolio_max_dd_abs, report_status, ap_portfolio>>

\* analyze_portfolio.py lines 28-82, run on the same Trades folder
AnalyzePortfolio ==
    /\ pc = "analyze"
    /\ LET loaded == LoadedDeals(selected_trades)
       IN  IF loaded = <<>>
           THEN UNCHANGED ap_portfolio
           ELSE LET start == DataStart(loaded)
                    end   == DataEnd(loaded)
                IN  ap_portfolio' =
                       Timeline(BalanceDeals(InRange(loaded, start, end)),
                                start, end)
    /\ pc' = "ap_done"
    /\ UNCHANGED <<parseVars, mainVars, all_trades, listVars, e2eVars, df_deals,
                   calc_start, calc_end, portfolio, report_daily_max_dds,
                   portfolio_max_dd_abs, summary, report_status>>

\* lines 35-39: the shared variables of analyze.py before line 59
AnalyzeIdle ==
    /\ df_deals = <<>>
    /\ calc_start = 0
    /\ calc_end = 0
    /\ portfolio = <<>>
    /\ report_daily_max_dds = <<>>
    /\ portfolio_max_dd_abs = 0
    /\ summary = Unbound
    /\ report_status = <<>>
    /\ ap_portfolio = <<>>

\* e2e.py is not running
E2EIdle ==
    /\ e2e_pc = "idle"
    /\ e2e_args = <<>>
    /\ e2e_trace = <<>>

\* no report list read yet, no run before this one
ListIdle ==
    /\ report_list = <<>>
    /\ all_flag = FALSE
    /\ file_idx = 0
    /\ first_run = <<>>

----------------------------------------------------------------------------
(* trades.py main: the report list and the loop over the reports;           *)
(* analyze.py main: the status of every report of the list                  *)

\* what a report file of the list may hold: one sequence, as Candidate
\* builds it
ListShapes ==
    {[start |-> 1, end |-> 2, side |-> "long", symbol |-> "EURUSD"],
     [start |-> 2, end |-> 3, side |-> "long", symbol |-> "EURUSD"],
     [start |-> 2, end |-> 3, side |-> "short", symbol |-> "EURUSD"],
     [start |-> 1, end |-> 3, side |-> "long", symbol |-> "GBPUSD"]}

\* what stands for the content of a file that is absent from the filesystem
NoFile == [start |-> 0, end |-> 0, side |-> "none", symbol |-> "none"]

\* a row of report_list.csv: its Include column, whether the file of its
\* FilePath is present, and what the file holds
ListRows ==
    [Include : {0, 1}, present : {TRUE}, file : ListShapes]
    \cup [Include : {0, 1}, present : {FALSE}, file : {NoFile}]

\* parse_sequences_and_deals(f) for the n-th row of the list: (sequences,
\* all_deals_output); open() raises for an absent file and lines 173-175
\* return two empty lists
ParseResult(n, row) ==
    IF ~row.present
    THEN [seqs |-> <<>>, full_df |-> <<>>]
    ELSE LET s == Candidate(n, row.file.start, row.file.end, row.file.side,
                            row.file.symbol)
         IN  [seqs |-> <<s>>, full_df |-> s.deals]

\* lines 197-203: the rows whose files are processed, in the order of the list
FilesToProcess(list, all) ==
    SelectSeq([n \in 1..Len(list) |-> n],
              LAMBDA n : all \/ list[n].Include = 1)

\* line 194
IncludedFilesSet(list) == {n \in 1..Len(list) : list[n].Include = 1}

\* the selected_trades file and the all_trades file a run before this one
\* left in the Trades folder, of a report that is not in the list now
StaleSequence == Candidate(MaxList + 1, 1, 2, "long", "EURUSD")

StaleSelected ==
    [sym \in Symbols |->
        IF sym = StaleSequence.symbol
        THEN SelectedRows(AcceptedDeals(StaleSequence.deals))
        ELSE <<>>]

StaleAllTrades ==
    [n \in {StaleSequence.file} |-> AllTradesRows(StaleSequence.deals)]

\* lines 205-207: nothing to process, main returns
NoFiles ==
    /\ pc = "main"
    /\ FilesToProcess(report_list, all_flag) = <<>>
    /\ pc' = "main_done"
    /\ UNCHANGED <<parseVars, mainVars, all_trades, listVars, e2eVars, analyzeVars>>

\* lines 209-218: the pool is empty and the Trades folder is made anew
RefreshTrades ==
    /\ pc = "main"
    /\ FilesToProcess(report_list, all_flag) # <<>>
    /\ all_sequences' = <<>>
    /\ selected_trades' = [sym \in Symbols |-> <<>>]
    /\ all_trades' = <<>>
    /\ file_idx' = 0
    /\ pc' = "reports"
    /\ UNCHANGED <<parseVars, sequences_by_symbol, sym_idx, seqs, s_idx,
                   last_end_time_long, last_end_time_short,
                   selected_seq_deals, total_trades, accepted_deals,
                   report_list, all_flag, first_run, e2eVars, analyzeVars>>

\* mutant: the sequences of every processed report enter the pool
Pooled_All(n, seqs_of_report) == seqs_of_report

\* lines 226-227: the sequences of the n-th report that enter the pool
Pooled(n, seqs_of_report) ==
    IF n \in IncludedFilesSet(report_list) THEN seqs_of_report ELSE <<>>

\* mutant: a file that cannot be read ends the run
ProcessReport_Abort ==
    /\ pc = "reports"
    /\ file_idx < Len(FilesToProcess(report_list, all_flag))
    /\ LET f == FilesToProcess(report_list, all_flag)[file_idx + 1]
           result == ParseResult(f, report_list[f])
       IN  IF report_list[f].present
           THEN /\ all_sequences' = all_sequences \o Pooled(f, result.seqs)
                /\ all_trades' =
                      [n \in DOMAIN all_trades \cup {f} |->
                          IF n = f THEN AllTradesRows(result.full_df)
                          ELSE all_trades[n]]
                /\ file_idx' = file_idx + 1
                /\ pc' = pc
           ELSE /\ pc' = "main_done"
                /\ UNCHANGED <<all_sequences, all_trades, file_idx>>
    /\ UNCHANGED <<parseVars, sequences_by_symbol, sym_idx, seqs, s_idx,
                   last_end_time_long, last_end_time_short,
                   selected_seq_deals, total_trades, accepted_deals,
                   selected_trades, report_list, all_flag, first_run, e2eVars,
                   analyzeVars>>

\* lines 221-241: one iteration of the loop over the files; the all_trades
\* file is written also when the report gave no rows
ProcessReport ==
    /\ pc = "reports"
    /\ file_idx < Len(FilesToProcess(report_list, all_flag))
    /\ LET f == FilesToProcess(report_list, all_flag)[file_idx + 1]
           result == ParseResult(f, report_list[f])
       IN  /\ all_sequences' = all_sequences \o Pooled(f, result.seqs)
           /\ all_trades' =
                 [n \in DOMAIN all_trades \cup {f} |->
                     IF n = f THEN AllTradesRows(result.full_df)
                     ELSE all_trades[n]]
    /\ file_idx' = file_idx + 1
    /\ UNCHANGED <<pc, parseVars, sequences_by_symbol, sym_idx, seqs, s_idx,
                   last_end_time_long, last_end_time_short,
                   selected_seq_deals, total_trades, accepted_deals,
                   selected_trades, report_list, all_flag, first_run, e2eVars,
                   analyzeVars>>

\* line 243: the loop over the files is over
ReportsDone ==
    /\ pc = "reports"
    /\ file_idx = Len(FilesToProcess(report_list, all_flag))
    /\ pc' = "group"
    /\ UNCHANGED <<parseVars, mainVars, all_trades, listVars, e2eVars, analyzeVars>>

\* analyze.py is started on the output folder after trades.py has returned
StartAnalyze ==
    /\ pc = "main_done"
    /\ pc' = "analyze"
    /\ UNCHANGED <<parseVars, mainVars, all_trades, listVars, e2eVars, analyzeVars>>

\* lines 811-870: what the detailed analysis shows for the n-th row of the
\* list (the name of the all_trades file is the name trades.py gave it)
StatusOf(n) ==
    LET included_files == {df_deals[k].SourceFile : k \in 1..Len(df_deals)}
    IN  IF n \notin DOMAIN all_trades
        THEN "Skipped (File could not be parsed or has no trades)"
        ELSE IF n \in included_files THEN "Included"
        ELSE IF report_list[n].Include = 0 THEN "Skipped (Manual (Include=0))"
        ELSE IF report_list[n].Include = 1 THEN "Skipped (Overlapping trades)"
        ELSE IF InRange(all_trades[n], calc_start, calc_end) = <<>>
        THEN "Skipped (Date range)"
        ELSE "Partially Included"

\* lines 750-870: the detailed per-report section; without any all_trades
\* file (line 755) no report is shown
ShowReports ==
    /\ pc = "summary"
    /\ report_status' =
          IF DOMAIN all_trades = {} THEN <<>>
          ELSE [n \in 1..Len(report_list) |-> StatusOf(n)]
    /\ pc' = "shown"
    /\ UNCHANGED <<parseVars, mainVars, all_trades, listVars, e2eVars, df_deals,
                   calc_start, calc_end, portfolio, report_daily_max_dds,
                   portfolio_max_dd_abs, summary, ap_portfolio>>

\* mutant: the second run goes on with the variables of the first
Rerun_SameProcess ==
    /\ pc = "shown"
    /\ first_run = <<>>
    /\ first_run' = <<[selected_trades |-> selected_trades,
                      portfolio |-> portfolio, summary |-> summary]>>
    /\ pc' = "main"
    /\ UNCHANGED <<parseVars, mainVars, all_trades, report_list, all_flag,
                   file_idx, analyzeVars, e2eVars>>

\* the pipeline is run a second time on the same folder, report list and
\* options: two new processes, whose variables start as in the first run,
\* and the Trades folder as the first run left it
Rerun ==
    /\ pc = "shown"
    /\ first_run = <<>>
    /\ first_run' = <<[selected_trades |-> selected_trades,
                      portfolio |-> portfolio, summary |-> summary]>>
    /\ pc' = "main"
    /\ all_sequences' = <<>>
    /\ sequences_by_symbol' = <<>>
    /\ sym_idx' = 0
    /\ seqs' = <<>>
    /\ s_idx' = 1
    /\ last_end_time_long' = TimestampMin
    /\ last_end_time_short' = TimestampMin
    /\ selected_seq_deals' = <<>>
    /\ total_trades' = 0
    /\ accepted_deals' = Unbound
    /\ file_idx' = 0
    /\ df_deals' = <<>>
    /\ calc_start' = 0
    /\ calc_end' = 0
    /\ portfolio' = <<>>
    /\ report_daily_max_dds' = <<>>
    /\ portfolio_max_dd_abs' = 0
    /\ summary' = Unbound
    /\ report_status' = <<>>
    /\ UNCHANGED <<parseVars, selected_trades, all_trades, report_list,
                   all_flag, ap_portfolio, e2eVars>>

----------------------------------------------------------------------------
(* generate_trades.py: the legacy entry point, and trades.py run on the     *)
(* rows of one report                                                       *)

\* the money columns of a row (trades.py lines 48-51, generate_trades.py
\* lines 48-51), which the classification does not read: every deal pays a
\* commission, an exit has a profit or a loss
WithMoney(d) ==
    [f \in DOMAIN d \cup {"Profit", "Commission", "Swap", "Balance"} |->
        IF f = "Profit"
        THEN (IF d.Direction = "in" THEN 0 ELSE 2 * d.Deal - 5)
        ELSE IF f = "Commission" THEN -1
        ELSE IF f = "Swap" THEN 0
        ELSE IF f = "Balance" THEN 0
        ELSE d[f]]

\* trades.py lines 223-227 for the one report of the stage, which is
\* included: its sequences enter the pool, their deals with all columns
PoolReport ==
    /\ pc = "parsed"
    /\ all_sequences' =
          all_sequences \o
          [i \in 1..Len(sequences) |->
              [sequences[i] EXCEPT
                 !.deals = [k \in 1..Len(@) |-> WithMoney(@[k])]]]
    /\ pc' = "group"
    /\ UNCHANGED <<parseVars, sequences_by_symbol, sym_idx, seqs, s_idx,
                   last_end_time_long, last_end_time_short,
                   selected_seq_deals, total_trades, accepted_deals,
                   selected_trades, all_trades, listVars, analyzeVars,
                   e2eVars>>

\* generate_trades.py line 53 and row.to_dict() (lines 69, 71, 74, 91): a
\* row of the report as the legacy loop sees it
LegacyRow(d) ==
    LET m == WithMoney(d)
    IN  [Deal |-> m.Deal, Time |-> m.Time, Type |-> m.Type,
         Direction |-> m.Direction, Volume |-> m.Volume,
         Profit |-> m.Profit, Commission |-> m.Commission, Swap |-> m.Swap,
         DealPnL |-> m.Profit + m.Commission + m.Swap]

\* generate_trades.py lines 56-58
LegacyParseInit ==
    [sequences |-> <<>>, current_seq_deals |-> <<>>, open_volume |-> 0]

\* generate_trades.py lines 60-90: one iteration of the loop
LegacyParseRow(st, row) ==
    IF row.Direction = "in"
    THEN [st EXCEPT
            !.current_seq_deals =
                IF st.open_volume < EPS THEN <<row>> ELSE Append(@, row),
            !.open_volume = @ + FloatOf(row.Volume)]
    ELSE IF row.Direction = "out"
    THEN LET deals == Append(st.current_seq_deals, row)
             vol   == st.open_volume - FloatOf(row.Volume)
         IN  IF vol < EPS
             THEN [sequences |->
                      Append(st.sequences,
                             [start |-> deals[1].Time, end |-> row.Time,
                              deals |-> deals, symbol |-> ReportSymbol,
                              file |-> ReportFile]),
                   current_seq_deals |-> <<>>,
                   open_volume |-> 0]
             ELSE [st EXCEPT !.current_seq_deals = deals,
                             !.open_volume = vol]
    ELSE IF row.Direction = "in/out"
    THEN [st EXCEPT !.current_seq_deals = Append(@, row)]
    ELSE st

RECURSIVE LegacyParse(_, _)
\* generate_trades.py parse_sequences_and_deals: the locals after the first
\* n rows
LegacyParse(rows, n) ==
    IF n = 0 THEN LegacyParseInit
    ELSE LegacyParseRow(LegacyParse(rows, n - 1), rows[n])

RECURSIVE LegacyBalance(_, _, _)
\* generate_trades.py lines 155-163: current_balance after the first k deals
\* of an accepted sequence
LegacyBalance(deals, k, current_balance) ==
    IF k = 0 THEN current_balance
    ELSE LET before == LegacyBalance(deals, k - 1, current_balance)
         IN  IF deals[k].Direction = "in" THEN before
             ELSE before + deals[k].DealPnL

\* generate_trades.py lines 150-168: one iteration of "for s in seqs"
LegacyVisit(st, s) ==
    IF s.start > st.last_end_time
    THEN [last_end_time |-> s.end,
          current_balance |->
              LegacyBalance(s.deals, Len(s.deals), st.current_balance),
          accepted_deals |->
              st.accepted_deals \o
              [k \in 1..Len(s.deals) |->
                  [Deal |-> s.deals[k].Deal, SourceFile |-> s.file,
                   Balance |->
                       LegacyBalance(s.deals, k, st.current_balance)]],
          accepted |-> Append(st.accepted, s)]
    ELSE st

RECURSIVE LegacySelect(_, _)
\* generate_trades.py lines 143-168: the locals after the first n sequences
\* of the sorted list of a symbol
LegacySelect(sorted, n) ==
    IF n = 0
    THEN [last_end_time |-> TimestampMin, current_balance |-> Base,
          accepted_deals |-> <<>>, accepted |-> <<>>]
    ELSE LegacyVisit(LegacySelect(sorted, n - 1), sorted[n])

\* generate_trades.py main on one included report with these rows
LegacyMain(rows) ==
    LET found  == LegacyParse(rows, Len(rows)).sequences
        sorted == SortByStart(found)
    IN  LegacySelect(sorted, Len(sorted))

----------------------------------------------------------------------------
(* e2e.py: the pipeline of list.py, trades.py and analyze.py *)

\* the scripts of steps 1, 2 and 3 (lines 67, 98, 108)
Steps == <<"list.py", "trades.py", "analyze.py">>

\* the position of main before, during and after run_command of each step
PcBefore == <<"step1", "step2", "step3">>

PcDuring == <<"run_list", "run_trades", "run_analyze">>

PcAfter == <<"list_out", "step3", "exit_0">>

\* the exit status of a child: 0, or the status of an uncaught exception or
\* of a usage error
ExitCodes == {0, 1, 2}

\* what the output of list.py and the analysis folder give at lines 76-94:
\* the folder list.py names, the most recent output_* folder, or none
ListOutputs == {"match", "fallback", "none"}

\* the positions at which the process of trades.py, of analyze.py is running
TradesRunning == {"main", "reports", "group", "symbols", "seqs"}

AnalyzeRunning ==
    {"analyze", "timeline", "daily", "dd_sum", "analyze_done", "summary"}

\* the report lists an output folder may hold
ReportLists == UNION {[1..len -> ListRows] : len \in 0..MaxList}

\* the report lists list.py writes (list.py lines 34-45): the .htm files it
\* found, every one with Include = 1
NewReportLists ==
    UNION {[1..len -> {row \in ListRows : row.Include = 1 /\ row.present}] :
              len \in 1..MaxList}

\* lines 49-61
E2EStart ==
    /\ e2e_pc = "start"
    /\ e2e_pc' = IF ~e2e_args.exists THEN "exit_1"
                 ELSE IF e2e_args.is_output_dir THEN PcBefore[2]
                 ELSE PcBefore[1]
    /\ UNCHANGED <<pc, parseVars, mainVars, all_trades, listVars,
                   analyzeVars, e2e_args, e2e_trace>>

\* line 35, called at lines 71, 103 and 113: the child of step k is started;
\* trades.py and analyze.py get --all when e2e.py got it
RunCommand(k) ==
    /\ e2e_pc = PcBefore[k]
    /\ e2e_pc' = PcDuring[k]
    /\ e2e_trace' = Append(e2e_trace,
                           [event |-> "start", step |-> Steps[k],
                            all |-> k > 1 /\ e2e_args.all, code |-> None])
    /\ pc' = IF k = 1 THEN pc ELSE IF k = 2 THEN "main" ELSE "analyze"
    /\ all_flag' = IF k = 2 THEN e2e_args.all ELSE all_flag
    /\ UNCHANGED <<parseVars, mainVars, all_trades, report_list, file_idx,
                   first_run, analyzeVars, e2e_args>>

\* the child of step k has reached the end of its main, or has died on the
\* way with a status that is not 0
ChildExit(k, code) ==
    \/ code # 0
    \/ k = 1
    \/ k = 2 /\ pc = "main_done"
    \/ k = 3 /\ pc = "shown"

\* mutant: run_command without check=True
CommandReturns_NoCheck(k) ==
    /\ e2e_pc = PcDuring[k]
    /\ \E code \in ExitCodes :
          /\ ChildExit(k, code)
          /\ e2e_trace' = Append(e2e_trace,
                                 [event |-> "exit", step |-> Steps[k],
                                  all |-> k > 1 /\ e2e_args.all,
                                  code |-> code])
          /\ e2e_pc' = PcAfter[k]
          /\ pc' = IF code # 0 /\ k > 1 THEN "exited" ELSE pc
    /\ UNCHANGED <<parseVars, mainVars, all_trades, listVars, analyzeVars,
                   e2e_args>>

\* lines 35-41: subprocess.run returns when the child has exited; with
\* check=True a status that is not 0 raises and e2e.py exits with status 1
CommandReturns(k) ==
    /\ e2e_pc = PcDuring[k]
    /\ \E code \in ExitCodes :
          /\ ChildExit(k, code)
          /\ e2e_trace' = Append(e2e_trace,
                                 [event |-> "exit", step |-> Steps[k],
                                  all |-> k > 1 /\ e2e_args.all,
                                  code |-> code])
          /\ e2e_pc' = IF code # 0 THEN "exit_1" ELSE PcAfter[k]
          /\ pc' = IF code # 0 /\ k > 1 THEN "exited" ELSE pc
    /\ UNCHANGED <<parseVars, mainVars, all_trades, listVars, analyzeVars,
                   e2e_args>>

\* lines 74-94: the output folder of the steps after list.py, and what it
\* holds: the new folder with the list list.py wrote, or the most recent
\* output_* folder with whatever list and Trades folder it has
ListOutput ==
    /\ e2e_pc = "list_out"
    /\ \E out \in ListOutputs :
          \/ /\ out = "match"
             /\ e2e_pc' = PcBefore[2]
             /\ report_list' \in NewReportLists
             /\ UNCHANGED <<selected_trades, all_trades>>
          \/ /\ out = "fallback"
             /\ e2e_pc' = PcBefore[2]
             /\ report_list' \in ReportLists
             /\ \/ UNCHANGED <<selected_trades, all_trades>>
                \/ /\ selected_trades' = StaleSelected
                   /\ all_trades' = StaleAllTrades
          \/ /\ out = "none"
             /\ e2e_pc' = "exit_1"
             /\ UNCHANGED <<report_list, selected_trades, all_trades>>
    /\ UNCHANGED <<pc, parseVars, all_sequences, sequences_by_symbol, sym_idx,
                   seqs, s_idx, last_end_time_long, last_end_time_short,
                   selected_seq_deals, total_trades, accepted_deals,
                   all_flag, file_idx, first_run, analyzeVars, e2e_args,
                   e2e_trace>>

----------------------------------------------------------------------------
(* The stages *)

\* main at line 243, holding a pool of sequences, the n-th from report n
InitSelect ==
    /\ pc = "group"
    /\ ParseInit
    /\ \E len \in 1..MaxSeqs :
          \E c \in [1..len -> Shapes] :
             \E split \in 0..len : all_sequences = PoolOf(c, split)
    /\ all_trades = <<>>
    /\ MainIdle
    /\ ListIdle
    /\ AnalyzeIdle
    /\ E2EIdle

NextSelect ==
    \/ Group
    \/ NextSymbol
    \/ VisitSequence
    \/ WriteSelected
    \/ MainDone

SpecSelect == InitSelect /\ [][NextSelect]_vars

\* parse_sequences_and_deals at line 65
InitParse ==
    /\ pc = "parse"
    /\ ParseInit
    /\ all_sequences = <<>>
    /\ all_trades = <<>>
    /\ MainIdle
    /\ ListIdle
    /\ AnalyzeIdle
    /\ E2EIdle

NextParse ==
    \/ ProcessRow
    \/ ParseReturn

SpecParse == InitParse /\ [][NextParse]_vars

\* both functions of trades.py
SpecTrades == (InitParse \/ InitSelect) /\ [][NextParse \/ NextSelect]_vars

\* analyze.py (or analyze_portfolio.py) started on the Trades folder that
\* trades.py left for len reports, each of its own instrument and each with
\* its one sequence selected
InitAnalyze ==
    /\ pc = "analyze"
    /\ ParseInit
    /\ \E len \in 1..MaxReports :
          \E c \in [1..len -> ReportShapes] :
             /\ all_sequences = <<>>
             /\ all_trades = [n \in 1..len |->
                                 AllTradesRows(ReportDeals(n, c[n]))]
             /\ selected_trades =
                   [sym \in Symbols |->
                      IF \E n \in 1..len : SymbolList[n] = sym
                      THEN LET n == CHOOSE n \in 1..len : SymbolList[n] = sym
                           IN  SelectedRows(AcceptedDeals(
                                   SortByTime(ReportDeals(n, c[n]))))
                      ELSE <<>>]
    /\ sequences_by_symbol = <<>>
    /\ sym_idx = 0
    /\ seqs = <<>>
    /\ s_idx = 1
    /\ last_end_time_long = TimestampMin
    /\ last_end_time_short = TimestampMin
    /\ selected_seq_deals = <<>>
    /\ total_trades = 0
    /\ accepted_deals = Unbound
    /\ ListIdle
    /\ AnalyzeIdle
    /\ E2EIdle

NextAnalyze ==
    \/ LoadDeals
    \/ PortfolioTimeline
    \/ DailyDrawdowns
    \/ DrawdownSum
    \/ WriteSummary
    \/ AnalyzePortfolio

SpecAnalyze == InitAnalyze /\ [][NextAnalyze]_vars

\* the selection of trades.py and the two analysis programs
SpecBalance ==
    (InitSelect \/ InitAnalyze) /\ [][NextSelect \/ NextAnalyze]_vars

\* trades.py started on an output folder: a report list, --all given or
\* not, and a Trades folder that is empty or holds what an earlier run left
InitPipeline ==
    /\ pc = "main"
    /\ ParseInit
    /\ \E len \in 0..MaxList : report_list \in [1..len -> ListRows]
    /\ all_flag \in BOOLEAN
    /\ \/ selected_trades = [sym \in Symbols |-> <<>>] /\ all_trades = <<>>
       \/ selected_trades = StaleSelected /\ all_trades = StaleAllTrades
    /\ all_sequences = <<>>
    /\ sequences_by_symbol = <<>>
    /\ sym_idx = 0
    /\ seqs = <<>>
    /\ s_idx = 1
    /\ last_end_time_long = TimestampMin
    /\ last_end_time_short = TimestampMin
    /\ selected_seq_deals = <<>>
    /\ total_trades = 0
    /\ accepted_deals = Unbound
    /\ file_idx = 0
    /\ first_run = <<>>
    /\ AnalyzeIdle
    /\ E2EIdle

NextPipeline ==
    \/ NoFiles
    \/ RefreshTrades
    \/ ProcessReport
    \/ ReportsDone
    \/ NextSelect
    \/ StartAnalyze
    \/ LoadDeals
    \/ PortfolioTimeline
    \/ DailyDrawdowns
    \/ DrawdownSum
    \/ WriteSummary
    \/ ShowReports
    \/ Rerun

\* trades.py and then analyze.py, and both once more
SpecPipeline == InitPipeline /\ [][NextPipeline]_vars

\* e2e.py started on input_path: a path that does not exist, a parent folder
\* without report_list.csv, or an output folder with its list and its
\* Trades folder
InitE2E ==
    /\ pc = "not_started"
    /\ ParseInit
    /\ e2e_pc = "start"
    /\ e2e_trace = <<>>
    /\ e2e_args \in {a \in [exists : BOOLEAN, is_output_dir : BOOLEAN,
                           all : BOOLEAN] : a.is_output_dir => a.exists}
    /\ IF e2e_args.is_output_dir
       THEN /\ report_list \in ReportLists
            /\ \/ /\ selected_trades = [sym \in Symbols |-> <<>>]
                  /\ all_trades = <<>>
               \/ /\ selected_trades = StaleSelected
                  /\ all_trades = StaleAllTrades
       ELSE /\ report_list = <<>>
            /\ selected_trades = [sym \in Symbols |-> <<>>]
            /\ all_trades = <<>>
    /\ all_flag = FALSE
    /\ all_sequences = <<>>
    /\ sequences_by_symbol = <<>>
    /\ sym_idx = 0
    /\ seqs = <<>>
    /\ s_idx = 1
    /\ last_end_time_long = TimestampMin
    /\ last_end_time_short = TimestampMin
    /\ selected_seq_deals = <<>>
    /\ total_trades = 0
    /\ accepted_deals = Unbound
    /\ file_idx = 0
    /\ first_run = <<>>
    /\ AnalyzeIdle

NextE2E ==
    \/ E2EStart
    \/ \E k \in 1..Len(Steps) : RunCommand(k)
    \/ \E k \in 1..Len(Steps) : CommandReturns(k)
    \/ ListOutput
    \/ NoFiles
    \/ RefreshTrades
    \/ ProcessReport
    \/ ReportsDone
    \/ NextSelect
    \/ LoadDeals
    \/ PortfolioTimeline
    \/ DailyDrawdowns
    \/ DrawdownSum
    \/ WriteSummary
    \/ ShowReports

\* e2e.py and the children it runs
SpecE2E == InitE2E /\ [][NextE2E]_vars

\* trades.py on one included report: the classification of its rows and
\* then the selection over what it returned
NextVariants ==
    \/ NextParse
    \/ PoolReport
    \/ NextSelect

SpecVariants == InitParse /\ [][NextVariants]_vars

----------------------------------------------------------------------------
(* Claims about parse_sequences_and_deals *)

Abs(x) == IF x < 0 THEN -x ELSE x

RECURSIVE SumVolume(_, _, _)
\* the sum of the Volume of the first n deals whose Direction is dir
SumVolume(deals, dir, n) ==
    IF n = 0 THEN 0
    ELSE SumVolume(deals, dir, n - 1)
         + (IF deals[n].Direction = dir THEN FloatOf(deals[n].Volume)
                                         ELSE 0)

DealIds(deals) == {deals[i].Deal : i \in 1..Len(deals)}

\* C3: in every returned sequence the open-fill volumes minus the close-fill
\* volumes are 0 within the tolerance, for any report (a close may exceed the
\* open volume).
C3_VolumeBalanced ==
    \A i \in 1..Len(sequences) :
        LET deals == sequences[i].deals
        IN  Abs(SumVolume(deals, "in", Len(deals))
                - SumVolume(deals, "out", Len(deals))) < EPS

\* C8: when the last deal has been processed and a side's open volume has not
\* returned below the tolerance, no deal of that side's still-open run (the
\* side's buffer; the deals carrying the side's current sequence number) is in
\* a returned sequence, and each is in the annotated deal list.
C8_UnterminatedNotEmitted ==
    pc = "parsed" =>
        /\ long_vol >= EPS =>
              /\ DealIds(active_long_deals) # {}
              /\ \A i \in 1..Len(active_long_deals) :
                    /\ \A k \in 1..Len(sequences) :
                          active_long_deals[i].Deal \notin DealIds(sequences[k].deals)
                    /\ \E j \in 1..Len(all_deals_output) :
                          all_deals_output[j] = active_long_deals[i]
              /\ \A j \in 1..Len(all_deals_output) :
                    all_deals_output[j].SequenceNumber = long_seq_num =>
                        /\ all_deals_output[j].Deal \in DealIds(active_long_deals)
                        /\ \A k \in 1..Len(sequences) :
                              all_deals_output[j].Deal \notin DealIds(sequences[k].deals)
        /\ short_vol >= EPS =>
              /\ DealIds(active_short_deals) # {}
              /\ \A i \in 1..Len(active_short_deals) :
                    /\ \A k \in 1..Len(sequences) :
                          active_short_deals[i].Deal \notin DealIds(sequences[k].deals)
                    /\ \E j \in 1..Len(all_deals_output) :
                          all_deals_output[j] = active_short_deals[i]
              /\ \A j \in 1..Len(all_deals_output) :
                    all_deals_output[j].SequenceNumber = short_seq_num =>
                        /\ all_deals_output[j].Deal \in DealIds(active_short_deals)
                        /\ \A k \in 1..Len(sequences) :
                              all_deals_output[j].Deal \notin DealIds(sequences[k].deals)

\* a long run left open at the end of a report that also returned a sequence
C8_Witness ==
    /\ pc = "parsed"
    /\ long_vol >= EPS
    /\ Len(active_long_deals) >= 2
    /\ \E k \in 1..Len(sequences) : sequences[k].side = "long"

\* C9: the k-th open fill of a sequence (the deals carrying one sequence
\* number, returned or not) has TradeNumberInSequence = k, from 1 for the fill
\* that opens it, the long and the short side counting separately.
C9_EntryIndex ==
    \A i \in 1..Len(all_deals_output) :
        LET d == all_deals_output[i]
        IN  d.Direction = "in" =>
               /\ d.SequenceNumber \in 1..global_seq_counter
               /\ d.TradeNumberInSequence =
                     Cardinality({j \in 1..i :
                         /\ all_deals_output[j].Direction = "in"
                         /\ all_deals_output[j].SequenceNumber = d.SequenceNumber})

\* a long and a short sequence are open together, each with a second entry
C9_Witness ==
    /\ \E i \in 1..Len(all_deals_output) :
          /\ all_deals_output[i].Type = "buy"
          /\ all_deals_output[i].TradeNumberInSequence = 2
    /\ \E i \in 1..Len(all_deals_output) :
          /\ all_deals_output[i].Type = "sell"
          /\ all_deals_output[i].Direction = "in"
          /\ all_deals_output[i].TradeNumberInSequence = 2
    /\ long_vol >= EPS
    /\ short_vol >= EPS

\* C10: every 'out' fill and every 'in/out' fill of the annotated deal list
\* has TradeNumberInSequence None, whatever the open volumes were.
C10_ExitIndexNull ==
    \A i \in 1..Len(all_deals_output) :
        all_deals_output[i].Direction \in {"out", "in/out"} =>
            all_deals_output[i].TradeNumberInSequence = None

----------------------------------------------------------------------------
(* Claims about the selection of main *)

\* the sequence s is among the deals selected for the symbol in hand
IsSelected(s) ==
    \E i \in 1..Len(selected_seq_deals) :
        selected_seq_deals[i].Deal = s.deals[1].Deal

\* the sequence s is in the selected_trades file of its symbol
InFile(s) ==
    \E i \in 1..Len(selected_trades[s.symbol]) :
        selected_trades[s.symbol][i].Deal = s.deals[1].Deal

\* the pool's sequences of one symbol and side
PoolIds(sym, side) ==
    {n \in 1..Len(all_sequences) :
        all_sequences[n].symbol = sym /\ all_sequences[n].side = side}

\* C1: for every symbol and side, of two accepted sequences the one accepted
\* later starts after the end of the one accepted earlier; no two accepted
\* sequences of one (symbol, side) in the written selection overlap.
C1_NonOverlap ==
    /\ \A i, j \in 1..Len(seqs) :
          /\ i < j
          /\ seqs[i].side = seqs[j].side
          /\ IsSelected(seqs[i])
          /\ IsSelected(seqs[j])
          => seqs[j].start > seqs[i].end
    /\ pc = "main_done" =>
          \A sym \in Symbols, side \in {"long", "short"} :
              \A a, b \in PoolIds(sym, side) :
                  /\ a # b
                  /\ InFile(all_sequences[a])
                  /\ InFile(all_sequences[b])
                  => \/ all_sequences[b].start > all_sequences[a].end
                     \/ all_sequences[a].start > all_sequences[b].end

\* two sequences of one (symbol, side) were accepted and a third was rejected
C1_Witness ==
    /\ pc = "main_done"
    /\ \E sym \in Symbols, side \in {"long", "short"} :
          \E a, b, c \in PoolIds(sym, side) :
              /\ a # b
              /\ InFile(all_sequences[a])
              /\ InFile(all_sequences[b])
              /\ ~InFile(all_sequences[c])

RECURSIVE RefGreedy(_, _)
\* the reference selection: of the sequences ids, take the one that starts
\* first (the first of the pool among equal starts); accept it iff it starts
\* strictly after last, which then becomes its end
RefGreedy(ids, last) ==
    IF ids = {} THEN {}
    ELSE LET m == CHOOSE n \in ids :
                     \A k \in ids :
                         \/ all_sequences[n].start < all_sequences[k].start
                         \/ /\ all_sequences[n].start = all_sequences[k].start
                            /\ n <= k
         IN  IF all_sequences[m].start > last
             THEN {m} \cup RefGreedy(ids \ {m}, all_sequences[m].end)
             ELSE RefGreedy(ids \ {m}, last)

\* the end of the sequence of that side accepted last before seqs[i]
LastAcceptedEnd(side, i) ==
    LET acc == {k \in 1..(i - 1) : seqs[k].side = side /\ IsSelected(seqs[k])}
    IN  IF acc = {} THEN TimestampMin
        ELSE seqs[CHOOSE k \in acc : \A l \in acc : l <= k].end

\* C2: the candidates of a symbol are visited by ascending start; one is
\* accepted iff its start is strictly after the end of the sequence of its
\* side accepted last (minus infinity at first), which its end then replaces;
\* the accepted set is the reference greedy-by-start selection.
C2_GreedyByStart ==
    /\ \A i, j \in 1..Len(seqs) : i < j => seqs[i].start <= seqs[j].start
    /\ pc = "seqs" =>
          /\ \A i \in 1..(s_idx - 1) :
                IsSelected(seqs[i]) <=>
                    seqs[i].start > LastAcceptedEnd(seqs[i].side, i)
          /\ \A i \in s_idx..Len(seqs) : ~IsSelected(seqs[i])
          /\ last_end_time_long = LastAcceptedEnd("long", s_idx)
          /\ last_end_time_short = LastAcceptedEnd("short", s_idx)
    /\ pc = "main_done" =>
          \A sym \in Symbols, side \in {"long", "short"} :
              {n \in PoolIds(sym, side) : InFile(all_sequences[n])}
                  = RefGreedy(PoolIds(sym, side), TimestampMin)

\* a sequence that starts at the end of the accepted one before it was rejected
C2_Witness ==
    /\ pc = "main_done"
    /\ \E sym \in Symbols, side \in {"long", "short"} :
          \E a, b \in PoolIds(sym, side) :
              /\ InFile(all_sequences[a])
              /\ ~InFile(all_sequences[b])
              /\ all_sequences[a].start < all_sequences[a].end
              /\ all_sequences[b].start = all_sequences[a].end

\* the fill the loop of parse_sequences_and_deals has just processed
LastRow == all_deals_output'[Len(all_deals_output')]

\* C7: a long-side fill (buy 'in', sell 'out' while long volume is open)
\* leaves the short volume, buffer, sequence number and trade counter
\* unchanged, and symmetrically; the selector's visit of a sequence leaves the
\* other side's last end unchanged and rejects it only if it starts at or
\* before the end of an accepted sequence of its own side.
C7_SidesIndependent ==
    [][
       /\ (pc = "parse" /\ Len(all_deals_output') = Len(all_deals_output) + 1) =>
             /\ (\/ LastRow.Type = "buy" /\ LastRow.Direction = "in"
                 \/ /\ LastRow.Type = "sell"
                    /\ LastRow.Direction = "out"
                    /\ long_vol >= EPS)
                => UNCHANGED shortVars
             /\ (\/ LastRow.Type = "sell" /\ LastRow.Direction = "in"
                 \/ /\ LastRow.Type = "buy"
                    /\ LastRow.Direction = "out"
                    /\ short_vol >= EPS)
                => UNCHANGED longVars
       /\ (pc = "seqs" /\ s_idx' = s_idx + 1) =>
             /\ seqs[s_idx].side = "long" => UNCHANGED last_end_time_short
             /\ seqs[s_idx].side = "short" => UNCHANGED last_end_time_long
             /\ selected_seq_deals' = selected_seq_deals =>
                   \E k \in 1..(s_idx - 1) :
                       /\ seqs[k].side = seqs[s_idx].side
                       /\ IsSelected(seqs[k])
                       /\ seqs[s_idx].start <= seqs[k].end
    ]_vars

\* a long and a short sequence of one symbol that overlap are both selected
C7_Witness ==
    /\ pc = "seqs"
    /\ \E i, j \in 1..Len(seqs) :
          /\ seqs[i].side = "long"
          /\ seqs[j].side = "short"
          /\ IsSelected(seqs[i])
          /\ IsSelected(seqs[j])
          /\ seqs[i].start < seqs[j].start
          /\ seqs[j].start < seqs[i].end

----------------------------------------------------------------------------
(* Claims about the balance series *)

\* the deals that close something
IsExit(d) == d.Direction \in {"out", "in/out"}

\* the balance after the deals at minute t or earlier when only exits count
ExitsBalance(deals, t) ==
    LET v == [n \in 1..Len(deals) |->
                IF IsExit(deals[n]) /\ Floor1min(deals[n].Time) <= t
                THEN NetPnl(deals[n]) ELSE 0]
    IN  Base + CumSum(v, Len(v))

\* the Balance column of a selected_trades file moves on exits only
ColumnOnExits(rows) ==
    \A n \in 1..Len(rows) :
        LET before == IF n = 1 THEN Base ELSE rows[n - 1].Balance
        IN  rows[n].Balance =
               IF IsExit(rows[n]) THEN before + NetPnl(rows[n]) ELSE before

\* a timeline over the loaded deals moves on exits only
SeriesOnExits(series) ==
    \A k \in 1..Len(series) :
        series[k].Balance =
           ExitsBalance(LoadedDeals(selected_trades), series[k].Time)

\* C4, trades.py: in the Balance column of every selected_trades file an
\* 'in' deal leaves the balance as it was and an exit adds its net pnl
C4_TradesColumn ==
    \A sym \in Symbols : ColumnOnExits(selected_trades[sym])

\* C4, analyze_portfolio.py: the balance at every bucket is the base plus the
\* net pnl of the exits so far
C4_AnalyzePortfolioSeries == SeriesOnExits(ap_portfolio)

\* C4, analyze.py: the pooled balance at every bucket is the base plus the
\* net pnl of the exits so far
C4_PooledSeries == SeriesOnExits(portfolio)

\* C4: balance changes only on exits.  In every balance series (the Balance
\* column trades.py writes, the pooled balance of analyze.py, the balance of
\* analyze_portfolio.py) an 'in' deal leaves the balance unchanged whatever
\* its profit, commission and swap are; only 'out' and 'in/out' deals add
\* their net pnl.
C4_BalanceOnlyOnExits ==
    /\ C4_TradesColumn
    /\ C4_AnalyzePortfolioSeries
    /\ C4_PooledSeries

\* C5: in the pooled balance series the peak of every bucket is at least the
\* peak of the bucket before it, and balance - peak is at most 0 at every
\* bucket.
C5_PeakMonotone ==
    /\ \A k \in 2..Len(portfolio) :
          portfolio[k].PeakBalance >= portfolio[k - 1].PeakBalance
    /\ \A k \in 1..Len(portfolio) :
          portfolio[k].Balance - portfolio[k].PeakBalance <= 0

\* the pooled series exists, its peak rises after a gain and a later loss
\* puts the balance under the peak
C5_Witness ==
    /\ pc = "daily"
    /\ \E j, k \in 2..Len(portfolio) :
          /\ j < k
          /\ portfolio[j].PeakBalance > portfolio[j - 1].PeakBalance
          /\ portfolio[k].BalancePnL < 0
          /\ portfolio[k].Balance < portfolio[k].PeakBalance

\* the maximum absolute drawdown of the pooled timeline (line 125)
PooledMaxDD ==
    MinOf({portfolio[k].Balance - portfolio[k].PeakBalance :
              k \in 1..Len(portfolio)})

\* C6: with two or more included reports, the conservative daily-sum maximum
\* drawdown (the minimum over the days of the sum over the reports of each
\* report's daily minimum drawdown) is less than or equal to the maximum
\* absolute drawdown of the pooled timeline.
C6_ConservativeAtMostPooled ==
    (/\ pc = "analyze_done"
     /\ Cardinality({df_deals[n].SourceFile : n \in 1..Len(df_deals)}) >= 2)
        => portfolio_max_dd_abs <= PooledMaxDD

----------------------------------------------------------------------------
(* Claims about the peak and the two drawdown figures *)

\* the buckets of the pooled series that change the balance
ChangingBuckets == {k \in 1..Len(portfolio) : portfolio[k].BalancePnL # 0}

\* C11, pooled series: when the first change of the balance in the range is a
\* loss, the balance at its bucket is the base less the loss and the peak at
\* that bucket is still the base
C11_PooledPeak ==
    (pc \in {"daily", "dd_sum", "analyze_done"} /\ ChangingBuckets # {})
        => LET k == MinOf(ChangingBuckets)
           IN  portfolio[k].BalancePnL < 0
                  => /\ portfolio[k].Balance = Base + portfolio[k].BalancePnL
                     /\ portfolio[k].PeakBalance = Base

\* C11, reconstruction of a report from its trade data: when the first deal
\* of the report in the range loses L, the drawdown of its day is -L or lower
C11_ReportPeak ==
    pc \in {"dd_sum", "analyze_done"}
        => \A r \in DOMAIN report_daily_max_dds :
              LET f == SortByTime(InRange(all_trades[r], calc_start, calc_end))
              IN  NetPnl(f[1]) < 0
                     => report_daily_max_dds[r][DateOf(f[1].Time)]
                           <= NetPnl(f[1])

\* C11: the peak starts at the base capital.  If the first balance-changing
\* deal in the range has net pnl -L, L > 0, then at its bucket the balance is
\* base - L, the running peak is still the base and the drawdown is -L, in
\* the pooled series and in the per-report reconstruction from trade data,
\* wherever in the range the deal falls.
C11_PeakStartsAtBase ==
    /\ C11_PooledPeak
    /\ C11_ReportPeak

\* the drawdown figures the summary box carries
WrittenDrawdowns ==
    {summary.max_drawdown[i] : i \in 1..Len(summary.max_drawdown)}

\* C12: both drawdown figures are exposed.  After analyze.py has run on a
\* portfolio that is not empty, the maximum drawdown of the pooled timeline
\* is among the figures of its output: computing the conservative daily-sum
\* figure has not replaced it.
C12_PooledExposed ==
    (pc = "summary" /\ portfolio # <<>>) => PooledMaxDD \in WrittenDrawdowns

----------------------------------------------------------------------------
(* Claims about the report list *)

\* this run of trades.py has made the Trades folder anew
Refreshed == pc # "main" /\ FilesToProcess(report_list, all_flag) # <<>>

\* the reports of the list marked Include = 0
Excluded == {n \in 1..Len(report_list) : report_list[n].Include = 0}

\* the SourceFile of the deals in the selected_trades files
SelectedSources ==
    UNION {{selected_trades[sym][k].SourceFile :
               k \in 1..Len(selected_trades[sym])} : sym \in Symbols}

\* C13: Include flag.  No sequence of a report with Include = 0 is in the
\* pool of the selector and none of its deals is in a selected_trades file,
\* with --all too; with --all the all_trades file of such a report is
\* written, with the rows the classifier returned for it.
C13_ExcludedNotSelected ==
    Refreshed =>
       /\ \A i \in 1..Len(all_sequences) : all_sequences[i].file \notin Excluded
       /\ SelectedSources \cap Excluded = {}
       /\ (all_flag /\ pc # "reports") =>
             \A n \in Excluded :
                /\ n \in DOMAIN all_trades
                /\ all_trades[n] =
                      AllTradesRows(ParseResult(n, report_list[n]).full_df)

\* --all: a report with Include = 0 has been classified and its all_trades
\* file holds its deals, while the one selected sequence is of another report
C13_Witness ==
    /\ pc = "main_done"
    /\ all_flag
    /\ \E n \in Excluded : n \in DOMAIN all_trades /\ all_trades[n] # <<>>
    /\ SelectedSources # {}
    /\ Len(all_sequences) = 1

\* C14: empty input.  When no report of the list has Include = 1, trades.py
\* and then analyze.py yield an empty portfolio: no selected deal is loaded
\* and the final balance is the base capital, whatever selected_trades files
\* an earlier run left in the output folder.
C14_EmptyPortfolio ==
    (pc \in {"summary", "shown"} /\ IncludedFilesSet(report_list) = {})
        => /\ df_deals = <<>>
           /\ summary.final_balance = Base

\* the rows of the list whose file can be read
Readable == {n \in 1..Len(report_list) : report_list[n].present}

\* the readable reports of the list that are candidates of one symbol and side
ListIds(sym, side) ==
    {n \in Readable \cap IncludedFilesSet(report_list) :
        report_list[n].file.symbol = sym /\ report_list[n].file.side = side}

RECURSIVE ListGreedy(_, _)
\* the selection over the list without its unreadable rows: by ascending
\* start (list order among equal starts), accepted iff the start is after last
ListGreedy(ids, last) ==
    IF ids = {} THEN {}
    ELSE LET m == CHOOSE n \in ids :
                     \A k \in ids :
                         \/ report_list[n].file.start < report_list[k].file.start
                         \/ /\ report_list[n].file.start
                                  = report_list[k].file.start
                            /\ n <= k
         IN  IF report_list[m].file.start > last
             THEN {m} \cup ListGreedy(ids \ {m}, report_list[m].file.end)
             ELSE ListGreedy(ids \ {m}, last)

\* C15: skip and continue.  A row of the list whose file is absent or cannot
\* be parsed contributes no sequence and does not end the batch: every other
\* report that is processed is classified (its all_trades file holds its
\* rows), the pool holds the sequences of the readable included reports in
\* list order, and the selection is the one over the list without the bad
\* rows.
C15_SkipAndContinue ==
    (Refreshed /\ pc # "reports") =>
       /\ \A i \in 1..Len(all_sequences) : all_sequences[i].file \in Readable
       /\ \A n \in Readable :
             (all_flag \/ report_list[n].Include = 1) =>
                /\ n \in DOMAIN all_trades
                /\ all_trades[n] =
                      AllTradesRows(ParseResult(n, report_list[n]).full_df)
       /\ [i \in 1..Len(all_sequences) |-> all_sequences[i].file]
             = SelectSeq([n \in 1..Len(report_list) |-> n],
                         LAMBDA n : n \in Readable
                                    /\ report_list[n].Include = 1)
       /\ pc \notin {"group", "symbols", "seqs"} =>
             SelectedSources =
                UNION {ListGreedy(ListIds(sym, side), TimestampMin) :
                          sym \in Symbols, side \in {"long", "short"}}

\* the first row of the list names an absent file and the report of the row
\* after it has been classified and selected
C15_Witness ==
    /\ pc = "main_done"
    /\ Len(report_list) = 2
    /\ ~report_list[1].present
    /\ report_list[1].Include = 1
    /\ 2 \in SelectedSources
    /\ all_trades[2] # <<>>

\* C16: reporting of a missing report.  After trades.py and analyze.py have
\* run, a row of the list with Include = 1 whose file is absent from the
\* filesystem is shown with the status that the file could not be parsed.
C16_MissingReported ==
    pc = "shown" =>
       \A n \in IncludedFilesSet(report_list) \ Readable :
          /\ n \in DOMAIN report_status
          /\ report_status[n]
                = "Skipped (File could not be parsed or has no trades)"

----------------------------------------------------------------------------
(* Claims about malformed rows *)

\* a list of deals holds a row whose Volume is no number
HasNonNumeric(deals) ==
    \E k \in 1..Len(deals) : deals[k].Volume = NonNumeric

\* C17: malformed rows are dropped.  A deal row whose Volume is not numeric
\* is not in the annotated output and is in no sequence, open or returned.
C17_MalformedDropped ==
    /\ ~HasNonNumeric(all_deals_output)
    /\ ~HasNonNumeric(active_long_deals)
    /\ ~HasNonNumeric(active_short_deals)
    /\ \A i \in 1..Len(sequences) : ~HasNonNumeric(sequences[i].deals)

----------------------------------------------------------------------------
(* Claims about runs of the whole pipeline *)

ListAccepted ==
    UNION {ListGreedy(ListIds(sym, side), TimestampMin) :
              sym \in Symbols, side \in {"long", "short"}}

ListRejected == (Readable \cap IncludedFilesSet(report_list)) \ ListAccepted

RECURSIVE SumNet(_, _)
\* the net pnl of the deals, exits only or all, of the reports ids
SumNet(ids, exits_only) ==
    IF ids = {} THEN 0
    ELSE LET n == CHOOSE m \in ids : TRUE
             d == ParseResult(n, report_list[n]).full_df
         IN  SumNet(ids \ {n}, exits_only)
             + CumSum([k \in 1..Len(d) |->
                          IF exits_only /\ ~IsExit(d[k]) THEN 0
                          ELSE NetPnl(d[k])], Len(d))

\* C19: rejected sequences carry no pnl into the portfolio.  No deal of a
\* sequence the selector rejected is among the selected deals or in a
\* selected_trades file; the last Balance of every selected_trades file is
\* the base plus the exits of the accepted sequences of its symbol, and the
\* pooled balance ends at the base plus the deals of the accepted sequences.
C19_RejectedNoPnl ==
    Refreshed =>
       /\ pc = "seqs" =>
             \A k \in 1..Len(selected_seq_deals) :
                selected_seq_deals[k].SourceFile \notin ListRejected
       /\ SelectedSources \cap ListRejected = {}
       /\ pc \notin {"reports", "group", "symbols", "seqs"} =>
             \A sym \in Symbols :
                selected_trades[sym] # <<>> =>
                   selected_trades[sym][Len(selected_trades[sym])].Balance
                      = Base + SumNet({n \in ListAccepted :
                                         report_list[n].file.symbol = sym},
                                      TRUE)
       /\ pc \in {"daily", "dd_sum", "analyze_done", "summary", "shown"} =>
             /\ \A k \in 1..Len(df_deals) :
                   df_deals[k].SourceFile \notin ListRejected
             /\ portfolio # <<>> =>
                   portfolio[Len(portfolio)].Balance
                      = Base + SumNet(ListAccepted, FALSE)

\* a sequence was rejected whose deals would have changed the balance, and
\* the pooled series has been built from the accepted one
C19_Witness ==
    /\ pc = "summary"
    /\ Refreshed
    /\ ListRejected # {}
    /\ SumNet(ListRejected, FALSE) # 0
    /\ portfolio # <<>>

----------------------------------------------------------------------------
(* Claims about the pooled series *)

\* the net pnl of the rows of one file whose minute is t or earlier
FileNetUpTo(rows, t) ==
    CumSum([k \in 1..Len(rows) |->
               IF Floor1min(rows[k].Time) <= t THEN NetPnl(rows[k]) ELSE 0],
           Len(rows))

\* the same over the selected_trades files of the first n symbols
RECURSIVE FilesNetUpTo(_, _)
FilesNetUpTo(n, t) ==
    IF n = 0 THEN 0
    ELSE FilesNetUpTo(n - 1, t)
         + FileNetUpTo(selected_trades[SymbolList[n]], t)

\* the rows of all selected_trades files whose minute is t
RowsAt(t) ==
    UNION {{<<sym, k>> : k \in {j \in 1..Len(selected_trades[sym]) :
                                 Floor1min(selected_trades[sym][j].Time) = t}}
           : sym \in Symbols}

\* C20: the pooled step series.  There is one pooled series over the deals of
\* all symbols; its buckets are the minutes of the range; at every bucket the
\* balance is the base, once, plus the net pnl of all deals of all symbols
\* whose minute is that bucket or an earlier one, and a bucket without deals
\* repeats the balance of the bucket before it.
C20_PooledStepSeries ==
    pc \in {"daily", "dd_sum", "analyze_done", "summary"} =>
       \A k \in 1..Len(portfolio) :
          /\ portfolio[k].Time = calc_start + (k - 1) * TicksPerMin
          /\ portfolio[k].Balance
                = Base + FilesNetUpTo(Len(SymbolList), portfolio[k].Time)
          /\ (k > 1 /\ RowsAt(portfolio[k].Time) = {})
                => portfolio[k].Balance = portfolio[k - 1].Balance

\* two symbols contribute; one minute holds two deals that both change the
\* balance, and a later minute holds none
C20_Witness ==
    /\ pc = "daily"
    /\ Cardinality({sym \in Symbols : selected_trades[sym] # <<>>}) >= 2
    /\ \E j, k \in 1..Len(portfolio) :
          /\ j < k
          /\ \E a, b \in RowsAt(portfolio[j].Time) :
                /\ a # b
                /\ NetPnl(selected_trades[a[1]][a[2]]) # 0
                /\ NetPnl(selected_trades[b[1]][b[2]]) # 0
          /\ RowsAt(portfolio[k].Time) = {}
          /\ portfolio[k].Balance # Base

----------------------------------------------------------------------------
(* Claims about the order of the selection *)

\* the candidate of ids the stable sort by start puts first
FirstByStart(ids) ==
    CHOOSE n \in ids :
        \A k \in ids :
            \/ all_sequences[n].start < all_sequences[k].start
            \/ /\ all_sequences[n].start = all_sequences[k].start
               /\ n <= k

RECURSIVE EndGreedy(_, _)
\* what a selection by ascending end would accept of the sequences ids
EndGreedy(ids, last) ==
    IF ids = {} THEN {}
    ELSE LET m == CHOOSE n \in ids :
                     \A k \in ids :
                         \/ all_sequences[n].end < all_sequences[k].end
                         \/ /\ all_sequences[n].end = all_sequences[k].end
                            /\ n <= k
         IN  IF all_sequences[m].start > last
             THEN {m} \cup EndGreedy(ids \ {m}, all_sequences[m].end)
             ELSE EndGreedy(ids \ {m}, last)

\* C21: the by-start policy.  Of the candidates of a (symbol, side) the one
\* that starts first is accepted, and every later candidate that starts at
\* or before its end is rejected, however many of them a selection by
\* ascending end would have accepted.
C21_ByStartPolicy ==
    pc = "main_done" =>
       \A sym \in Symbols, side \in {"long", "short"} :
          PoolIds(sym, side) # {} =>
             LET a == FirstByStart(PoolIds(sym, side))
             IN  /\ InFile(all_sequences[a])
                 /\ \A b \in PoolIds(sym, side) \ {a} :
                       all_sequences[b].start <= all_sequences[a].end
                          => ~InFile(all_sequences[b])

\* the earliest candidate overlaps two later ones that do not overlap each
\* other: it alone is accepted, and a selection by end would accept two
C21_Witness ==
    /\ pc = "main_done"
    /\ \E sym \in Symbols, side \in {"long", "short"} :
          \E a, b, c \in PoolIds(sym, side) :
             /\ a = FirstByStart(PoolIds(sym, side))
             /\ all_sequences[a].start < all_sequences[b].start
             /\ all_sequences[b].start <= all_sequences[a].end
             /\ all_sequences[b].end < all_sequences[c].start
             /\ all_sequences[c].start <= all_sequences[a].end
             /\ InFile(all_sequences[a])
             /\ ~InFile(all_sequences[b])
             /\ ~InFile(all_sequences[c])
             /\ Cardinality(EndGreedy(PoolIds(sym, side), TimestampMin))
                   > Cardinality(RefGreedy(PoolIds(sym, side), TimestampMin))

----------------------------------------------------------------------------
(* Claims about the conservative daily sum *)

\* the drawdown of a report at each of its deals in the range, as lines
\* 616-627 compute it
ReportDrawdowns(rows, start, end) ==
    LET f   == SortByTime(InRange(rows, start, end))
        pnl == [n \in 1..Len(f) |-> NetPnl(f[n])]
        bal == [n \in 1..Len(f) |-> CumSum(pnl, n) + Base]
    IN  [n \in 1..Len(f) |->
            [Time |-> f[n].Time, DD_Abs |-> bal[n] - ExpandingMax(bal, n)]]

\* the daily value of the forward-filled series of the report r on the day d:
\* the minimum of the day, or the drawdown at the last earlier deal
CarriedDD(r, d) ==
    LET s      == ReportDrawdowns(all_trades[r], calc_start, calc_end)
        on     == {n \in 1..Len(s) : DateOf(s[n].Time) = d}
        before == {n \in 1..Len(s) : DateOf(s[n].Time) < d}
    IN  IF on # {} THEN MinOf({s[n].DD_Abs : n \in on})
        ELSE IF before # {} THEN s[MaxOf(before)].DD_Abs
        ELSE 0

\* the sum over the included reports of their forward-filled daily values
CarriedSum(d) ==
    LET top == MaxOf(DOMAIN report_daily_max_dds)
    IN  CumSum([r \in 1..top |->
                   IF r \in DOMAIN report_daily_max_dds THEN CarriedDD(r, d)
                   ELSE 0], top)

\* the calendar days of the range
RangeDays == DateOf(calc_start)..DateOf(calc_end - 1)

\* C22: the daily minimum per report.  For every included report the value of
\* a day on which it has deals is the minimum drawdown of its balance series
\* on that day; on a day without a deal of the report the value is the
\* drawdown carried over from its last earlier deal; the conservative
\* drawdown is the minimum over the days of the range of the sum of these
\* values over the reports.
C22_DailyMinimum ==
    (pc = "analyze_done" /\ DOMAIN report_daily_max_dds # {}) =>
       /\ \A r \in DOMAIN report_daily_max_dds :
             \A d \in DOMAIN report_daily_max_dds[r] :
                report_daily_max_dds[r][d] = CarriedDD(r, d)
       /\ portfolio_max_dd_abs = MinOf({CarriedSum(d) : d \in RangeDays})

----------------------------------------------------------------------------
(* Claims about the rows that belong to no side *)

\* the loop has just processed a row
RowProcessed ==
    pc = "parse" /\ Len(all_deals_output') = Len(all_deals_output) + 1

\* C23: combined fills.  An 'in/out' fill changes neither side's open volume
\* nor its trade counter and neither opens nor closes a sequence; it is
\* appended, with the long sequence number, to the long buffer if the long
\* side has open volume (above the tolerance), otherwise with the short
\* sequence number to the short buffer if the short side has, and otherwise
\* to no buffer, with sequence number 0.
C23_CombinedFills ==
    [][
       (RowProcessed /\ LastRow.Direction = "in/out") =>
          /\ UNCHANGED <<long_vol, short_vol, long_trade_count,
                         short_trade_count, long_seq_num, short_seq_num,
                         global_seq_counter, sequences>>
          /\ IF long_vol > EPS
             THEN /\ active_long_deals' = Append(active_long_deals, LastRow)
                  /\ LastRow.SequenceNumber = long_seq_num
                  /\ UNCHANGED active_short_deals
             ELSE IF short_vol > EPS
             THEN /\ active_short_deals' = Append(active_short_deals, LastRow)
                  /\ LastRow.SequenceNumber = short_seq_num
                  /\ UNCHANGED active_long_deals
             ELSE /\ LastRow.SequenceNumber = 0
                  /\ UNCHANGED <<active_long_deals, active_short_deals>>
    ]_vars

\* both sides are open and a combined fill has gone to the long buffer
\* alone
C23_Witness ==
    /\ long_vol > EPS
    /\ short_vol > EPS
    /\ active_long_deals[Len(active_long_deals)].Direction = "in/out"
    /\ all_deals_output[Len(all_deals_output)].Direction = "in/out"
    /\ \A i \in 1..Len(active_short_deals) :
          active_short_deals[i].Direction # "in/out"

\* C24: bookkeeping rows.  A balance row is recorded in the annotated deal
\* list with sequence number 0 and leaves both open volumes, both buffers,
\* both trade counters, both current sequence numbers, the sequence counter
\* and the returned sequences unchanged.
C24_BookkeepingRows ==
    [][
       (RowProcessed /\ LastRow.Type = "balance") =>
          /\ all_deals_output' = Append(all_deals_output, LastRow)
          /\ LastRow.SequenceNumber = 0
          /\ UNCHANGED <<longVars, shortVars, global_seq_counter, sequences>>
    ]_vars

\* a balance row came while a long and a short sequence were open, and the
\* long sequence went on with a second entry after it
C24_Witness ==
    /\ Len(all_deals_output) = 4
    /\ all_deals_output[3].Type = "balance"
    /\ all_deals_output[3].SequenceNumber = 0
    /\ all_deals_output[4].TradeNumberInSequence = 2
    /\ Len(active_long_deals) = 2
    /\ Len(active_short_deals) = 1
    /\ long_vol > EPS
    /\ short_vol > EPS

----------------------------------------------------------------------------
(* Claims about the sequence numbers of one report *)

\* the runs of deals of the report: the returned sequences and the buffer of
\* every side that is open
Runs ==
    {sequences[i].deals : i \in 1..Len(sequences)}
    \cup (IF long_seq_num # None THEN {active_long_deals} ELSE {})
    \cup (IF short_seq_num # None THEN {active_short_deals} ELSE {})

\* the positions of the annotated list whose fill opened a sequence
Openings ==
    {i \in 1..Len(all_deals_output) :
        /\ all_deals_output[i].Direction = "in"
        /\ all_deals_output[i].TradeNumberInSequence = 1}

\* C25: sequence numbers within one report.  The n-th fill that opens a side
\* from flat, long or short, gets the number n; all deals of one sequence
\* carry one number; no two sequences share a number; the numbers increase
\* in the order the sequences open; and a deal with the number 0 is in no
\* sequence.
C25_SequenceIds ==
    LET runs     == Runs
        openings == Openings
    IN  /\ \A i \in openings :
              all_deals_output[i].SequenceNumber
                 = Cardinality({j \in openings : j <= i})
        /\ global_seq_counter = Cardinality(openings)
        /\ \A run \in runs :
              /\ run # <<>>
              /\ run[1].SequenceNumber \in 1..global_seq_counter
              /\ \A k \in 1..Len(run) :
                    run[k].SequenceNumber = run[1].SequenceNumber
        /\ \A a, b \in runs :
              /\ a # b => a[1].SequenceNumber # b[1].SequenceNumber
              /\ a[1].Deal < b[1].Deal
                    => a[1].SequenceNumber < b[1].SequenceNumber
        /\ \A i \in 1..Len(all_deals_output) :
              all_deals_output[i].SequenceNumber = 0 =>
                 \A run \in runs :
                    \A k \in 1..Len(run) :
                       run[k].Deal # all_deals_output[i].Deal

\* a long and a short sequence have been returned, the one opened second
\* first, and a third sequence has opened
C25_Witness ==
    /\ Len(sequences) = 2
    /\ sequences[1].deals[1].SequenceNumber = 2
    /\ sequences[2].deals[1].SequenceNumber = 1
    /\ sequences[1].side # sequences[2].side
    /\ global_seq_counter = 3

\* C26: the shape of a returned sequence.  Every sequence
\* parse_sequences_and_deals returns has an open fill ('in') as its first
\* member and a close fill ('out') as its last member; its start is the time
\* of the first member, its end the time of the last, and start <= end.
C26_SequenceShape ==
    \A i \in 1..Len(sequences) :
        LET deals == sequences[i].deals
        IN  /\ deals # <<>>
            /\ deals[1].Direction = "in"
            /\ deals[Len(deals)].Direction = "out"
            /\ sequences[i].start = deals[1].Time
            /\ sequences[i].end = deals[Len(deals)].Time
            /\ sequences[i].start <= sequences[i].end

----------------------------------------------------------------------------
(* Claims about candidates that start together *)

\* C27: the tie-break on equal starts.  Candidates of one symbol that start
\* at the same time are visited in the order of the pool (the order of the
\* reports in the list, then the order within the report); of the candidates
\* of one (symbol, side) that start together only the first of the pool can
\* be accepted, and when it is accepted every other one is rejected.
C27_TieBreak ==
    /\ \A i, j \in 1..Len(seqs) :
          (i < j /\ seqs[i].start = seqs[j].start)
             => seqs[i].file < seqs[j].file
    /\ pc = "main_done" =>
          \A sym \in Symbols, side \in {"long", "short"} :
             \A a, b \in PoolIds(sym, side) :
                (a < b /\ all_sequences[a].start = all_sequences[b].start)
                   => ~InFile(all_sequences[b])

\* two candidates of one (symbol, side) start together and end at different
\* times; the first of the pool is accepted and the other is rejected
C27_Witness ==
    /\ pc = "main_done"
    /\ \E sym \in Symbols, side \in {"long", "short"} :
          \E a, b \in PoolIds(sym, side) :
             /\ a < b
             /\ all_sequences[a].start = all_sequences[b].start
             /\ all_sequences[a].end > all_sequences[b].end
             /\ InFile(all_sequences[a])
             /\ ~InFile(all_sequences[b])

----------------------------------------------------------------------------
(* Claims about the output of one symbol *)

\* the sequences of the pool of one symbol, and those the reference
\* selection accepts of them
PoolOfSymbol(sym) == PoolIds(sym, "long") \cup PoolIds(sym, "short")

AcceptedOfSymbol(sym) ==
    RefGreedy(PoolIds(sym, "long"), TimestampMin)
    \cup RefGreedy(PoolIds(sym, "short"), TimestampMin)

\* C28: per-symbol output isolation.  For every symbol with a candidate the
\* first candidate by start of each side is accepted, so something is
\* selected when the loop over its candidates ends; its selected_trades file
\* holds the deals of its accepted sequences and no other deal, and the
\* Balance column of the file runs from the base capital.
C28_SymbolIsolation ==
    /\ (pc = "seqs" /\ s_idx > Len(seqs)) => selected_seq_deals # <<>>
    /\ pc = "seqs" =>
          \A k \in 1..Len(selected_seq_deals) :
             all_sequences[selected_seq_deals[k].SourceFile].symbol
                = sequences_by_symbol[sym_idx].sym
    /\ pc = "main_done" =>
          \A sym \in Symbols :
             /\ \A side \in {"long", "short"} :
                   PoolIds(sym, side) # {} =>
                      InFile(all_sequences[FirstByStart(PoolIds(sym, side))])
             /\ PoolOfSymbol(sym) # {} => selected_trades[sym] # <<>>
             /\ DealIds(selected_trades[sym])
                   = UNION {DealIds(all_sequences[n].deals) :
                               n \in AcceptedOfSymbol(sym)}
             /\ Len(selected_trades[sym])
                   = Cardinality(DealIds(selected_trades[sym]))
             /\ ColumnOnExits(selected_trades[sym])

\* two symbols have been processed, each has its file, the balance of the
\* first has moved off the base and a candidate of the second was rejected
C28_Witness ==
    /\ pc = "main_done"
    /\ Len(sequences_by_symbol) = 2
    /\ LET first  == selected_trades[sequences_by_symbol[1].sym]
           second == sequences_by_symbol[2].sym
       IN  /\ first # <<>>
           /\ first[Len(first)].Balance # Base
           /\ selected_trades[second] # <<>>
           /\ AcceptedOfSymbol(second) # PoolOfSymbol(second)

----------------------------------------------------------------------------
(* Claims about e2e.py *)

\* the steps e2e.py is to run
Plan ==
    IF e2e_args.is_output_dir THEN SubSeq(Steps, 2, 3) ELSE Steps

\* the steps started so far, in the order they were started
Started ==
    [i \in 1..((Len(e2e_trace) + 1) \div 2) |-> e2e_trace[2 * i - 1].step]

\* C29: the order of the pipeline.  The steps run in the order list.py
\* (not run when the input folder holds report_list.csv), trades.py,
\* analyze.py; a step is started only after the step before it has exited
\* with status 0, and no child runs outside its step; when a step exits
\* with another status e2e.py exits with status 1 and starts nothing more.
C29_PipelineOrder ==
    /\ \A i \in 1..Len(e2e_trace) :
          /\ e2e_trace[i].event = IF i % 2 = 1 THEN "start" ELSE "exit"
          /\ i % 2 = 0 => e2e_trace[i].step = e2e_trace[i - 1].step
          /\ (i % 2 = 1 /\ i > 1) => e2e_trace[i - 1].code = 0
          /\ (e2e_trace[i].event = "exit" /\ e2e_trace[i].code # 0)
                => i = Len(e2e_trace) /\ e2e_pc = "exit_1"
    /\ Len(Started) <= Len(Plan)
    /\ Started = SubSeq(Plan, 1, Len(Started))
    /\ pc \in TradesRunning => e2e_pc = "run_trades"
    /\ pc \in AnalyzeRunning => e2e_pc = "run_analyze"
    /\ e2e_pc = "exit_0" =>
          /\ Started = Plan
          /\ e2e_trace[Len(e2e_trace)].code = 0

\* list.py exited with status 0, trades.py died after it had begun its work,
\* e2e.py has exited with status 1 and analyze.py was never started
C29_Witness ==
    /\ e2e_pc = "exit_1"
    /\ Len(e2e_trace) = 4
    /\ e2e_trace[2].step = "list.py"
    /\ e2e_trace[2].code = 0
    /\ e2e_trace[4].step = "trades.py"
    /\ e2e_trace[4].code # 0
    /\ DOMAIN all_trades # {}
    /\ df_deals = <<>>

----------------------------------------------------------------------------
(* Claims about the two variants *)

\* the open volume after the first n rows
OpenVolume(rows, n) ==
    SumVolume(rows, "in", n) - SumVolume(rows, "out", n)

\* the rows are long-side fills only: buy 'in' and sell 'out' with numeric
\* volumes, and every close comes while volume is open and does not exceed
\* it
LongOnly(rows) ==
    \A n \in 1..Len(rows) :
        /\ rows[n].Volume # NonNumeric
        /\ \/ rows[n].Type = "buy" /\ rows[n].Direction = "in"
           \/ /\ rows[n].Type = "sell"
              /\ rows[n].Direction = "out"
              /\ OpenVolume(rows, n - 1) > EPS
              /\ rows[n].Volume <= OpenVolume(rows, n - 1)

\* the Deal numbers of a list of deals, in order
DealSeq(deals) == [k \in 1..Len(deals) |-> deals[k].Deal]

\* the Deal number and the Balance of every deal of a list
DealBalances(deals) ==
    [k \in 1..Len(deals) |-> <<deals[k].Deal, deals[k].Balance>>]

\* C30: variant equivalence.  On a report whose fills are all long-side
\* generate_trades.py accepts the sequences that trades.py accepts and gives
\* every accepted deal the Balance that trades.py gives it.
C30_VariantEquivalence ==
    (pc = "main_done" /\ LongOnly(all_deals_output)) =>
       LET rows   == [n \in 1..Len(all_deals_output) |->
                         LegacyRow(all_deals_output[n])]
           legacy == LegacyMain(rows)
       IN  /\ {DealSeq(legacy.accepted[i].deals) :
                  i \in 1..Len(legacy.accepted)}
              = {DealSeq(all_sequences[i].deals) :
                    i \in {j \in 1..Len(all_sequences) :
                              InFile(all_sequences[j])}}
           /\ DealBalances(legacy.accepted_deals)
                 = DealBalances(selected_trades[ReportSymbol])

====
